---- MODULE Spec2Model ----
(***************************************************************************)
(* Model of the PPM language model of src/ppm_language_model.js: the       *)
(* Vocabulary symbol table, the suffix trie with its backoff links, the    *)
(* Context cursors and the probability estimation getProbs; and of the     *)
(* scanning keyboard of src/script.js that drives it: its state variables, *)
(* its event handlers and the callback of its scan interval timer.         *)
(*                                                                         *)
(* JavaScript arrays are 0-based: the array element a[i] is the sequence   *)
(* element a[i + 1] here.  A node reference is the node's position in the  *)
(* sequence nodes (allocation order); the null reference is Null.          *)
(***************************************************************************)
EXTENDS Integers, Sequences, FiniteSets

VARIABLES symbols_, constructed, maxOrder_, useExclusion_, nodes, ctxs,
          numObserved, probs, last, ui

vars == <<symbols_, constructed, maxOrder_, useExclusion_, nodes, ctxs,
          numObserved, probs, last, ui>>

(***************************************************************************)
(* Bounds of the model.                                                    *)
(***************************************************************************)
\* Largest maxOrder a model is constructed with.
MaxOrderBound == 2
\* Number of calls of addSymbolAndUpdate that reach the trie.
MaxObserve == 4
\* Number of Context objects the caller holds.
MaxContexts == 2

\* Characters the caller offers to the vocabulary.
Chars == {"A", "B", "C", "D"}

Null == 0
Root == 1
NoContext == [head_ |-> Null, order_ |-> -1]

\* Vocabulary.rootSymbol
rootSymbol == 0

\* The state variables of script.js as its `let` declarations leave them,
\* with the page as it is loaded: the layout select on "abc", no letter
\* carrying a scan class, no interval timer set.
ScriptStart ==
  [message |-> <<>>, scanIndex |-> 0, scanning |-> FALSE,
   scanMode |-> "linear", usePredictions |-> TRUE, context |-> NoContext,
   currentRowIndex |-> -1, scanInterval |-> Null, layout |-> "abc",
   highlighted |-> {}, timers |-> <<>>]

(***************************************************************************)
(* Vocabulary                                                              *)
(***************************************************************************)
\* Array.prototype.indexOf: the 0-based position of the first match, or -1.
IndexOf(arr, x) ==
  IF \E i \in 1..Len(arr) : arr[i] = x
  THEN (CHOOSE i \in 1..Len(arr) :
          arr[i] = x /\ \A j \in 1..(i - 1) : arr[j] # x) - 1
  ELSE -1

\* Array.prototype.includes
Includes(arr, x) == \E i \in 1..Len(arr) : arr[i] = x

size(syms) == Len(syms)

getSymbolIndex(syms, ch) == IndexOf(syms, ch)

\* addSymbol without its includes test: every call pushes.  C5 rests on
\* the test.
addSymbolAlwaysPushes(syms, ch) ==
  [symbols |-> Append(syms, ch), ret |-> Len(Append(syms, ch)) - 1]

\* Vocabulary.addSymbol: the array after the call and the value returned.
addSymbol(syms, ch) ==
  IF ~Includes(syms, ch)
  THEN [symbols |-> Append(syms, ch), ret |-> Len(Append(syms, ch)) - 1]
  ELSE [symbols |-> syms, ret |-> IndexOf(syms, ch)]

(***************************************************************************)
(* Trie nodes                                                              *)
(***************************************************************************)
\* new Node()
NewNode == [child_ |-> Null, next_ |-> Null, backoff_ |-> Null,
            count_ |-> 1, symbol_ |-> rootSymbol]

RECURSIVE FindInList(_, _, _)
FindInList(ns, current, symbol) ==
  IF current = Null THEN Null
  ELSE IF ns[current].symbol_ = symbol THEN current
  ELSE FindInList(ns, ns[current].next_, symbol)

\* Node.findChildWithSymbol
findChildWithSymbol(ns, node, symbol) == FindInList(ns, ns[node].child_, symbol)

\* The children of a node in the order of its child_/next_ list.
RECURSIVE ListFrom(_, _)
ListFrom(ns, current) ==
  IF current = Null THEN <<>>
  ELSE <<current>> \o ListFrom(ns, ns[current].next_)

ChildList(ns, node) == ListFrom(ns, ns[node].child_)

RECURSIVE addSymbolToNode_(_, _, _)

\* addSymbolToNode_ without `symbolNode.next_ = node.child_`: the new child
\* replaces the list of its siblings.  C10 rests on the link.
addSymbolToNodeDropsSiblings(ns, node, symbol) ==
  LET symbolNode == findChildWithSymbol(ns, node, symbol) IN
  IF symbolNode # Null
  THEN [nodes |-> [ns EXCEPT ![symbolNode].count_ = @ + 1],
        ret |-> symbolNode, err |-> FALSE]
  ELSE
    LET new == Len(ns) + 1
        created == [NewNode EXCEPT !.symbol_ = symbol]
        ns1 == Append([ns EXCEPT ![node].child_ = new], created)
    IN IF node = Root
       THEN [nodes |-> [ns1 EXCEPT ![new].backoff_ = Root],
             ret |-> new, err |-> FALSE]
       ELSE IF ns1[node].backoff_ = Null
       THEN [nodes |-> ns1, ret |-> Null, err |-> TRUE]
       ELSE LET r == addSymbolToNode_(ns1, ns1[node].backoff_, symbol) IN
            IF r.err THEN r
            ELSE [nodes |-> [r.nodes EXCEPT ![new].backoff_ = r.ret],
                  ret |-> new, err |-> FALSE]

\* addSymbolToNode_ going on to the backoff node after `symbolNode.count_++`:
\* every order that has the symbol counts the observation.  C11 rests on the
\* count being taken at the highest order only.
addSymbolToNodeRecounts(ns, node, symbol) ==
  LET symbolNode == findChildWithSymbol(ns, node, symbol) IN
  IF symbolNode # Null
  THEN LET ns0 == [ns EXCEPT ![symbolNode].count_ = @ + 1] IN
       IF node = Root
       THEN [nodes |-> ns0, ret |-> symbolNode, err |-> FALSE]
       ELSE LET r == addSymbolToNode_(ns0, ns0[node].backoff_, symbol) IN
            [nodes |-> r.nodes, ret |-> symbolNode, err |-> r.err]
  ELSE
    LET new == Len(ns) + 1
        created == [NewNode EXCEPT !.symbol_ = symbol,
                                   !.next_ = ns[node].child_]
        ns1 == Append([ns EXCEPT ![node].child_ = new], created)
    IN IF node = Root
       THEN [nodes |-> [ns1 EXCEPT ![new].backoff_ = Root],
             ret |-> new, err |-> FALSE]
       ELSE IF ns1[node].backoff_ = Null
       THEN [nodes |-> ns1, ret |-> Null, err |-> TRUE]
       ELSE LET r == addSymbolToNode_(ns1, ns1[node].backoff_, symbol) IN
            IF r.err THEN r
            ELSE [nodes |-> [r.nodes EXCEPT ![new].backoff_ = r.ret],
                  ret |-> new, err |-> FALSE]

\* addSymbolToNode_ with `symbolNode.backoff_ = node.backoff_`: the new node
\* takes the backoff of its parent and the shorter contexts do not learn the
\* symbol.  C12 rests on the recursive call.
addSymbolToNodeSkipsBackoff(ns, node, symbol) ==
  LET symbolNode == findChildWithSymbol(ns, node, symbol) IN
  IF symbolNode # Null
  THEN [nodes |-> [ns EXCEPT ![symbolNode].count_ = @ + 1],
        ret |-> symbolNode, err |-> FALSE]
  ELSE
    LET new == Len(ns) + 1
        created == [NewNode EXCEPT !.symbol_ = symbol,
                                   !.next_ = ns[node].child_]
        ns1 == Append([ns EXCEPT ![node].child_ = new], created)
    IN IF node = Root
       THEN [nodes |-> [ns1 EXCEPT ![new].backoff_ = Root],
             ret |-> new, err |-> FALSE]
       ELSE IF ns1[node].backoff_ = Null
       THEN [nodes |-> ns1, ret |-> Null, err |-> TRUE]
       ELSE [nodes |-> [ns1 EXCEPT ![new].backoff_ = ns1[node].backoff_],
             ret |-> new, err |-> FALSE]

\* addSymbolToNode_ setting `symbolNode.backoff_ = this.root_` when it counts
\* an existing child.  C13 rests on the backoff being written in the
\* creating branch only.
addSymbolToNodeRelinks(ns, node, symbol) ==
  LET symbolNode == findChildWithSymbol(ns, node, symbol) IN
  IF symbolNode # Null
  THEN [nodes |-> [ns EXCEPT ![symbolNode].count_ = @ + 1,
                             ![symbolNode].backoff_ = Root],
        ret |-> symbolNode, err |-> FALSE]
  ELSE
    LET new == Len(ns) + 1
        created == [NewNode EXCEPT !.symbol_ = symbol,
                                   !.next_ = ns[node].child_]
        ns1 == Append([ns EXCEPT ![node].child_ = new], created)
    IN IF node = Root
       THEN [nodes |-> [ns1 EXCEPT ![new].backoff_ = Root],
             ret |-> new, err |-> FALSE]
       ELSE IF ns1[node].backoff_ = Null
       THEN [nodes |-> ns1, ret |-> Null, err |-> TRUE]
       ELSE LET r == addSymbolToNode_(ns1, ns1[node].backoff_, symbol) IN
            IF r.err THEN r
            ELSE [nodes |-> [r.nodes EXCEPT ![new].backoff_ = r.ret],
                  ret |-> new, err |-> FALSE]

\* addSymbolToNode_ without `symbolNode.count_++`.  C22 rests on the count of
\* the observations.
addSymbolToNodeForgetsCount(ns, node, symbol) ==
  LET symbolNode == findChildWithSymbol(ns, node, symbol) IN
  IF symbolNode # Null
  THEN [nodes |-> ns, ret |-> symbolNode, err |-> FALSE]
  ELSE
    LET new == Len(ns) + 1
        created == [NewNode EXCEPT !.symbol_ = symbol,
                                   !.next_ = ns[node].child_]
        ns1 == Append([ns EXCEPT ![node].child_ = new], created)
    IN IF node = Root
       THEN [nodes |-> [ns1 EXCEPT ![new].backoff_ = Root],
             ret |-> new, err |-> FALSE]
       ELSE IF ns1[node].backoff_ = Null
       THEN [nodes |-> ns1, ret |-> Null, err |-> TRUE]
       ELSE LET r == addSymbolToNode_(ns1, ns1[node].backoff_, symbol) IN
            IF r.err THEN r
            ELSE [nodes |-> [r.nodes EXCEPT ![new].backoff_ = r.ret],
                  ret |-> new, err |-> FALSE]

\* addSymbolToNode_ taking `node.backoff_ == this.root_` for the shortest
\* context: a child of a node at depth 1 backs off to the root and the root
\* does not learn the symbol.  C27 rests on the recursion reaching the root.
addSymbolToNodeStopsAboveRoot(ns, node, symbol) ==
  LET symbolNode == findChildWithSymbol(ns, node, symbol) IN
  IF symbolNode # Null
  THEN [nodes |-> [ns EXCEPT ![symbolNode].count_ = @ + 1],
        ret |-> symbolNode, err |-> FALSE]
  ELSE
    LET new == Len(ns) + 1
        created == [NewNode EXCEPT !.symbol_ = symbol,
                                   !.next_ = ns[node].child_]
        ns1 == Append([ns EXCEPT ![node].child_ = new], created)
    IN IF node = Root \/ ns1[node].backoff_ = Root
       THEN [nodes |-> [ns1 EXCEPT ![new].backoff_ = Root],
             ret |-> new, err |-> FALSE]
       ELSE IF ns1[node].backoff_ = Null
       THEN [nodes |-> ns1, ret |-> Null, err |-> TRUE]
       ELSE LET r == addSymbolToNode_(ns1, ns1[node].backoff_, symbol) IN
            IF r.err THEN r
            ELSE [nodes |-> [r.nodes EXCEPT ![new].backoff_ = r.ret],
                  ret |-> new, err |-> FALSE]

\* addSymbolToNode_ with `symbolNode.backoff_ = symbolNode.next_` under the
\* root: a child of the root backs off to the sibling it was linked before,
\* a node of its own level.  C28 rests on the backoff lying one level closer
\* to the root.
addSymbolToNodeBacksOffToSibling(ns, node, symbol) ==
  LET symbolNode == findChildWithSymbol(ns, node, symbol) IN
  IF symbolNode # Null
  THEN [nodes |-> [ns EXCEPT ![symbolNode].count_ = @ + 1],
        ret |-> symbolNode, err |-> FALSE]
  ELSE
    LET new == Len(ns) + 1
        created == [NewNode EXCEPT !.symbol_ = symbol,
                                   !.next_ = ns[node].child_]
        ns1 == Append([ns EXCEPT ![node].child_ = new], created)
    IN IF node = Root
       THEN [nodes |-> [ns1 EXCEPT ![new].backoff_ =
                          IF created.next_ = Null THEN Root ELSE created.next_],
             ret |-> new, err |-> FALSE]
       ELSE IF ns1[node].backoff_ = Null
       THEN [nodes |-> ns1, ret |-> Null, err |-> TRUE]
       ELSE LET r == addSymbolToNode_(ns1, ns1[node].backoff_, symbol) IN
            IF r.err THEN r
            ELSE [nodes |-> [r.nodes EXCEPT ![new].backoff_ = r.ret],
                  ret |-> new, err |-> FALSE]

\* addSymbolToNode_ without `symbolNode.backoff_ = this.root_`: a child of
\* the root has no backoff.  C29 rests on every node but the root having one.
addSymbolToNodeLeavesBackoffUnset(ns, node, symbol) ==
  LET symbolNode == findChildWithSymbol(ns, node, symbol) IN
  IF symbolNode # Null
  THEN [nodes |-> [ns EXCEPT ![symbolNode].count_ = @ + 1],
        ret |-> symbolNode, err |-> FALSE]
  ELSE
    LET new == Len(ns) + 1
        created == [NewNode EXCEPT !.symbol_ = symbol,
                                   !.next_ = ns[node].child_]
        ns1 == Append([ns EXCEPT ![node].child_ = new], created)
    IN IF node = Root
       THEN [nodes |-> ns1, ret |-> new, err |-> FALSE]
       ELSE IF ns1[node].backoff_ = Null
       THEN [nodes |-> ns1, ret |-> Null, err |-> TRUE]
       ELSE LET r == addSymbolToNode_(ns1, ns1[node].backoff_, symbol) IN
            IF r.err THEN r
            ELSE [nodes |-> [r.nodes EXCEPT ![new].backoff_ = r.ret],
                  ret |-> new, err |-> FALSE]

\* addSymbolToNode_ without the lookup of an existing child: every call
\* creates a node.  C35 rests on findChildWithSymbol being asked first.
addSymbolToNodeAlwaysCreates(ns, node, symbol) ==
  LET new == Len(ns) + 1
      created == [NewNode EXCEPT !.symbol_ = symbol,
                                 !.next_ = ns[node].child_]
      ns1 == Append([ns EXCEPT ![node].child_ = new], created)
  IN IF node = Root
     THEN [nodes |-> [ns1 EXCEPT ![new].backoff_ = Root],
           ret |-> new, err |-> FALSE]
     ELSE IF ns1[node].backoff_ = Null
     THEN [nodes |-> ns1, ret |-> Null, err |-> TRUE]
     ELSE LET r == addSymbolToNode_(ns1, ns1[node].backoff_, symbol) IN
          IF r.err THEN r
          ELSE [nodes |-> [r.nodes EXCEPT ![new].backoff_ = r.ret],
                ret |-> new, err |-> FALSE]

\* PPMLanguageModel.addSymbolToNode_: the trie after the call, the node
\* returned, and whether the call threw on its backoff assertion.
addSymbolToNode_(ns, node, symbol) ==
  LET symbolNode == findChildWithSymbol(ns, node, symbol) IN
  IF symbolNode # Null
  THEN [nodes |-> [ns EXCEPT ![symbolNode].count_ = @ + 1],
        ret |-> symbolNode, err |-> FALSE]
  ELSE
    LET new == Len(ns) + 1
        created == [NewNode EXCEPT !.symbol_ = symbol,
                                   !.next_ = ns[node].child_]
        ns1 == Append([ns EXCEPT ![node].child_ = new], created)
    IN IF node = Root
       THEN [nodes |-> [ns1 EXCEPT ![new].backoff_ = Root],
             ret |-> new, err |-> FALSE]
       ELSE IF ns1[node].backoff_ = Null
       THEN [nodes |-> ns1, ret |-> Null, err |-> TRUE]
       ELSE LET r == addSymbolToNode_(ns1, ns1[node].backoff_, symbol) IN
            IF r.err THEN r
            ELSE [nodes |-> [r.nodes EXCEPT ![new].backoff_ = r.ret],
                  ret |-> new, err |-> FALSE]

(***************************************************************************)
(* Contexts                                                                *)
(***************************************************************************)
\* createContext counting the root as a symbol of the context.  C18 rests on
\* rootContext_.order_ = 0.
createContextCountsRoot == [head_ |-> Root, order_ |-> 1]

\* PPMLanguageModel.createContext: a copy of rootContext_.
createContext == [head_ |-> Root, order_ |-> 0]

\* cloneContext as `new Context(context.head_, 0)`: the order is not copied.
\* C19 rests on both fields being copied.
cloneContextDropsOrder(context) == [head_ |-> context.head_, order_ |-> 0]

\* cloneContext as createContext: a copy of rootContext_ in place of a copy of
\* its argument.  C20 rests on the clone resting on the node of its argument.
cloneContextFromRoot(context) == createContext

\* PPMLanguageModel.cloneContext
cloneContext(context) == [head_ |-> context.head_, order_ |-> context.order_]

RECURSIVE ContextLoop(_, _, _, _)

\* The loop of addSymbolToContext with `context.order_ <= this.maxOrder_`.
\* C9 rests on the strict comparison.
ContextLoopExtendsAtMaxOrder(ns, mo, context, symbol) ==
  IF context.head_ = Null THEN [head_ |-> Root, order_ |-> 0]
  ELSE
    LET childNode == findChildWithSymbol(ns, context.head_, symbol) IN
    IF context.order_ <= mo /\ childNode # Null
    THEN [head_ |-> childNode, order_ |-> context.order_ + 1]
    ELSE ContextLoop(ns, mo,
                     [head_ |-> ns[context.head_].backoff_,
                      order_ |-> context.order_ - 1], symbol)

\* The loop of addSymbolToContext without `context.order_--`: the head backs
\* off, the order stays.  C32 rests on the two moving together.
ContextLoopKeepsOrder(ns, mo, context, symbol) ==
  IF context.head_ = Null THEN [head_ |-> Root, order_ |-> 0]
  ELSE
    LET childNode == findChildWithSymbol(ns, context.head_, symbol) IN
    IF context.order_ < mo /\ childNode # Null
    THEN [head_ |-> childNode, order_ |-> context.order_ + 1]
    ELSE ContextLoop(ns, mo,
                     [head_ |-> ns[context.head_].backoff_,
                      order_ |-> context.order_], symbol)

\* The loop of addSymbolToContext giving up the whole context when the head
\* cannot be extended, in place of backing off one symbol.  C33 rests on the
\* step to the backoff node.
ContextLoopBacksOffToRoot(ns, mo, context, symbol) ==
  IF context.head_ = Null THEN [head_ |-> Root, order_ |-> 0]
  ELSE
    LET childNode == findChildWithSymbol(ns, context.head_, symbol) IN
    IF context.order_ < mo /\ childNode # Null
    THEN [head_ |-> childNode, order_ |-> context.order_ + 1]
    ELSE IF context.head_ = Root THEN [head_ |-> Root, order_ |-> 0]
    ELSE ContextLoop(ns, mo, [head_ |-> Root, order_ |-> 0], symbol)

\* The while loop of addSymbolToContext and the reset that follows it.
ContextLoop(ns, mo, context, symbol) ==
  IF context.head_ = Null THEN [head_ |-> Root, order_ |-> 0]
  ELSE
    LET childNode == findChildWithSymbol(ns, context.head_, symbol) IN
    IF context.order_ < mo /\ childNode # Null
    THEN [head_ |-> childNode, order_ |-> context.order_ + 1]
    ELSE ContextLoop(ns, mo,
                     [head_ |-> ns[context.head_].backoff_,
                      order_ |-> context.order_ - 1], symbol)

RECURSIVE BackoffLoop(_, _, _)

\* The loop of addSymbolAndUpdate with `context.order_ > this.maxOrder_ + 1`.
\* C6 rests on the bound of the loop.
BackoffLoopOneLate(ns, mo, context) ==
  IF context.order_ > mo + 1
  THEN BackoffLoop(ns, mo, [head_ |-> ns[context.head_].backoff_,
                            order_ |-> context.order_ - 1])
  ELSE context

\* The loop of addSymbolAndUpdate without `context.head_ =
\* context.head_.backoff_`: the order drops, the head stays.  C7 rests on the
\* step to the backoff node.
BackoffLoopKeepsHead(ns, mo, context) ==
  IF context.order_ > mo
  THEN BackoffLoop(ns, mo, [head_ |-> context.head_,
                            order_ |-> context.order_ - 1])
  ELSE context

\* The loop of addSymbolAndUpdate with `context.order_ > 1`: the context
\* never keeps more than one symbol.  C31 rests on the bound being maxOrder_.
BackoffLoopOrderOne(ns, mo, context) ==
  IF context.order_ > 1
  THEN BackoffLoop(ns, mo, [head_ |-> ns[context.head_].backoff_,
                            order_ |-> context.order_ - 1])
  ELSE context

\* The while loop of addSymbolAndUpdate.
BackoffLoop(ns, mo, context) ==
  IF context.order_ > mo
  THEN BackoffLoop(ns, mo, [head_ |-> ns[context.head_].backoff_,
                            order_ |-> context.order_ - 1])
  ELSE context

\* The guards with `symbol < vocab.rootSymbol`: the root symbol passes the
\* early return.  C14 rests on the comparison being <=.
symbolOutcomeAdmitsRoot(numSymbols, symbol) ==
  IF symbol < rootSymbol THEN "ignored"
  ELSE IF ~(symbol < numSymbols) THEN "thrown"
  ELSE "done"

\* The guards with `assert(symbol <= this.vocab_.size())`: the first index
\* past the vocabulary passes.  C15 rests on the comparison being strict.
symbolOutcomeAdmitsSize(numSymbols, symbol) ==
  IF symbol <= rootSymbol THEN "ignored"
  ELSE IF ~(symbol <= numSymbols) THEN "thrown"
  ELSE "done"

\* How the guards at the head of addSymbolToContext and addSymbolAndUpdate
\* end the call: the early return, the failed assert, or neither.
symbolOutcome(numSymbols, symbol) ==
  IF symbol <= rootSymbol THEN "ignored"
  ELSE IF ~(symbol < numSymbols) THEN "thrown"
  ELSE "done"

\* addSymbolAndUpdate without its while loop: the context rests on the node
\* addSymbolToNode_ returned.  C34 rests on the loop.
addSymbolAndUpdateKeepsChild(ns, mo, numSymbols, context, symbol) ==
  IF symbolOutcome(numSymbols, symbol) # "done"
  THEN [nodes |-> ns, context |-> context,
        outcome |-> symbolOutcome(numSymbols, symbol)]
  ELSE
    LET r == addSymbolToNode_(ns, context.head_, symbol) IN
    IF r.err \/ r.ret # findChildWithSymbol(r.nodes, context.head_, symbol)
    THEN [nodes |-> r.nodes, context |-> context, outcome |-> "thrown"]
    ELSE [nodes |-> r.nodes,
          context |-> [head_ |-> r.ret, order_ |-> context.order_ + 1],
          outcome |-> "done"]

\* PPMLanguageModel.addSymbolAndUpdate: the trie and the context after the
\* call and how the call ended (its two asserts and the assert of
\* addSymbolToNode_ included).
addSymbolAndUpdate(ns, mo, numSymbols, context, symbol) ==
  IF symbolOutcome(numSymbols, symbol) # "done"
  THEN [nodes |-> ns, context |-> context,
        outcome |-> symbolOutcome(numSymbols, symbol)]
  ELSE
    LET r == addSymbolToNode_(ns, context.head_, symbol) IN
    IF r.err \/ r.ret # findChildWithSymbol(r.nodes, context.head_, symbol)
    THEN [nodes |-> r.nodes, context |-> context, outcome |-> "thrown"]
    ELSE [nodes |-> r.nodes,
          context |-> BackoffLoop(r.nodes, mo,
                                  [head_ |-> r.ret,
                                   order_ |-> context.order_ + 1]),
          outcome |-> "done"]

\* addSymbolToContext doing the work of addSymbolAndUpdate.  C8 rests on
\* addSymbolToContext only reading the trie.
addSymbolToContextLearns(ns, mo, numSymbols, context, symbol) ==
  addSymbolAndUpdate(ns, mo, numSymbols, context, symbol)

\* PPMLanguageModel.addSymbolToContext: the trie and the context after the
\* call and how the call ended.
addSymbolToContext(ns, mo, numSymbols, context, symbol) ==
  IF symbolOutcome(numSymbols, symbol) # "done"
  THEN [nodes |-> ns, context |-> context,
        outcome |-> symbolOutcome(numSymbols, symbol)]
  ELSE [nodes |-> ns, context |-> ContextLoop(ns, mo, context, symbol),
        outcome |-> "done"]

(***************************************************************************)
(* Exact arithmetic.  getProbs computes with fractions; the model keeps    *)
(* every number of one getProbs call as an integer numerator over one      *)
(* common denominator.  Numerators outgrow machine integers, so an integer *)
(* is a sign and a magnitude, the magnitude a sequence of digits in base   *)
(* Base, least significant first, without leading zeros.                   *)
(***************************************************************************)
Base == 100 * 100

RECURSIVE MagNorm(_)
MagNorm(a) ==
  IF a # <<>> /\ a[Len(a)] = 0 THEN MagNorm(SubSeq(a, 1, Len(a) - 1)) ELSE a

RECURSIVE MagOfInt(_)
MagOfInt(n) == IF n = 0 THEN <<>> ELSE <<n % Base>> \o MagOfInt(n \div Base)

Digit(a, i) == IF i <= Len(a) THEN a[i] ELSE 0

RECURSIVE MagAddFrom(_, _, _, _)
MagAddFrom(a, b, i, carry) ==
  IF i > Len(a) /\ i > Len(b) THEN MagOfInt(carry)
  ELSE LET x == Digit(a, i) + Digit(b, i) + carry IN
       <<x % Base>> \o MagAddFrom(a, b, i + 1, x \div Base)

MagAdd(a, b) == MagAddFrom(a, b, 1, 0)

\* a - b for a >= b
RECURSIVE MagSubFrom(_, _, _, _)
MagSubFrom(a, b, i, borrow) ==
  IF i > Len(a) THEN <<>>
  ELSE LET x == Digit(a, i) - Digit(b, i) - borrow IN
       <<IF x < 0 THEN x + Base ELSE x>>
         \o MagSubFrom(a, b, i + 1, IF x < 0 THEN 1 ELSE 0)

MagSub(a, b) == MagNorm(MagSubFrom(a, b, 1, 0))

RECURSIVE MagCmpFrom(_, _, _)
MagCmpFrom(a, b, i) ==
  IF i = 0 THEN 0
  ELSE IF a[i] < b[i] THEN -1
  ELSE IF a[i] > b[i] THEN 1
  ELSE MagCmpFrom(a, b, i - 1)

\* -1, 0 or 1 as a < b, a = b or a > b
MagCmp(a, b) ==
  IF Len(a) < Len(b) THEN -1
  ELSE IF Len(a) > Len(b) THEN 1
  ELSE MagCmpFrom(a, b, Len(a))

\* a * k for 0 <= k < 200000
RECURSIVE MagMulFrom(_, _, _, _)
MagMulFrom(a, k, i, carry) ==
  IF i > Len(a) THEN MagOfInt(carry)
  ELSE LET x == a[i] * k + carry IN
       <<x % Base>> \o MagMulFrom(a, k, i + 1, x \div Base)

MagMul(a, k) == MagNorm(MagMulFrom(a, k, 1, 0))

\* Quotient and remainder of a by k, 0 < k < 200000, from the top digit down.
RECURSIVE MagDivFrom(_, _, _, _)
MagDivFrom(a, k, i, rem) ==
  IF i = 0 THEN [q |-> <<>>, r |-> rem]
  ELSE LET x == rem * Base + a[i]
           rest == MagDivFrom(a, k, i - 1, x % k)
       IN [q |-> Append(rest.q, x \div k), r |-> rest.r]

MagDiv(a, k) ==
  LET d == MagDivFrom(a, k, Len(a), 0) IN [q |-> MagNorm(d.q), r |-> d.r]

\* Signed integers.
Num(neg, mag) == [neg |-> neg /\ mag # <<>>, mag |-> mag]

NumOfInt(n) == IF n < 0 THEN Num(TRUE, MagOfInt(-n)) ELSE Num(FALSE, MagOfInt(n))

Zero == NumOfInt(0)

NumNeg(x) == Num(~x.neg, x.mag)

NumAdd(x, y) ==
  IF x.neg = y.neg THEN Num(x.neg, MagAdd(x.mag, y.mag))
  ELSE IF MagCmp(x.mag, y.mag) >= 0 THEN Num(x.neg, MagSub(x.mag, y.mag))
  ELSE Num(y.neg, MagSub(y.mag, x.mag))

NumSub(x, y) == NumAdd(x, NumNeg(y))

\* x * k for an integer k, |k| < 200000
NumMul(x, k) ==
  IF k < 0 THEN Num(~x.neg, MagMul(x.mag, -k)) ELSE Num(x.neg, MagMul(x.mag, k))

RECURSIVE NumSum(_)
NumSum(xs) == IF xs = <<>> THEN Zero ELSE NumAdd(Head(xs), NumSum(Tail(xs)))

(***************************************************************************)
(* getProbs                                                                *)
(***************************************************************************)
\* knAlpha = 0.49 and knBeta = 0.77 as knAlphaNum / knDen and knBetaNum / knDen
knAlphaNum == 49

\* knBeta with its decimal point one place to the right (7.7): a discount
\* above the counts.  C2 rests on knBeta < 1.
knBetaNumSlipped == 10 * 77

knBetaNum == 77
knDen == 100

\* epsilon = 1E-10 = 1 / (EpsilonInvRoot * EpsilonInvRoot)
EpsilonInvRoot == 100000

\* `!exclusionMask || !exclusionMask[symbol]`; the null mask is <<>>.
Unmasked(exclusionMask, symbol) ==
  exclusionMask = <<>> \/ ~exclusionMask[symbol + 1]

RECURSIVE CountFrom(_, _, _)

\* totalChildrenCounts without its test of the mask: the children whose
\* symbols are excluded are counted too.  C24 rests on the test.
CountFromIgnoresMask(ns, childNode, exclusionMask) ==
  IF childNode = Null THEN 0
  ELSE ns[childNode].count_ + CountFrom(ns, ns[childNode].next_, exclusionMask)

\* Node.totalChildrenCounts
CountFrom(ns, childNode, exclusionMask) ==
  IF childNode = Null THEN 0
  ELSE (IF Unmasked(exclusionMask, ns[childNode].symbol_)
        THEN ns[childNode].count_ ELSE 0)
       + CountFrom(ns, ns[childNode].next_, exclusionMask)

totalChildrenCounts(ns, node, exclusionMask) ==
  CountFrom(ns, ns[node].child_, exclusionMask)

\* The numbers of a getProbs call, all numerators over the denominator den.
ScaleBy(st, k) ==
  [st EXCEPT !.den = MagMul(@, k),
             !.probs = [i \in 1..Len(@) |-> NumMul(@[i], k)],
             !.totalMass = NumMul(@, k),
             !.gamma = NumMul(@, k),
             !.remainingMass = NumMul(@, k),
             !.newProbMass = NumMul(@, k)]

\* x / k for a numerator x and an integer k > 0: the numerator of the
\* quotient and the numbers brought to the denominator it needs.
Quotient(st, x, k) ==
  LET d == MagDiv(x.mag, k) IN
  IF d.r = 0 THEN [st |-> st, p |-> Num(x.neg, d.q)]
  ELSE [st |-> ScaleBy(st, k), p |-> x]

\* const p = gamma * (childNode.count_ - knBeta) / (count + knAlpha)
Estimate(st, childCount, count) ==
  Quotient(st, NumMul(st.gamma, knDen * childCount - knBetaNum),
           knDen * count + knAlphaNum)

\* The assignment without `totalMass -= p`.  C1 rests on the mass given to a
\* symbol being taken from totalMass.
AssignKeepsMass(st, symbol, p) ==
  [st EXCEPT !.probs[symbol + 1] = NumAdd(@, p),
             !.mask = IF @ = <<>> THEN @ ELSE [@ EXCEPT ![symbol + 1] = TRUE]]

\* probs[symbol] += p; totalMass -= p; if (exclusionMask) mask[symbol] = true
Assign(st, symbol, p) ==
  [st EXCEPT !.probs[symbol + 1] = NumAdd(@, p),
             !.totalMass = NumSub(@, p),
             !.mask = IF @ = <<>> THEN @ ELSE [@ EXCEPT ![symbol + 1] = TRUE]]

\* The loop over the children of one node of the backoff chain.
RECURSIVE ChildLoop(_, _, _, _)
ChildLoop(ns, st, childNode, count) ==
  IF childNode = Null THEN st
  ELSE
    LET symbol == ns[childNode].symbol_ IN
    IF Unmasked(st.mask, symbol)
    THEN LET e == Estimate(st, ns[childNode].count_, count) IN
         ChildLoop(ns, Assign(e.st, symbol, e.p), ns[childNode].next_, count)
    ELSE ChildLoop(ns, st, ns[childNode].next_, count)

\* The loop over the backoff chain, from the head of the context.
RECURSIVE NodeLoop(_, _, _)
NodeLoop(ns, st, node) ==
  IF node = Null THEN st
  ELSE
    LET count == totalChildrenCounts(ns, node, st.mask)
        st1 == IF count > 0 THEN ChildLoop(ns, st, ns[node].child_, count)
               ELSE st
    IN NodeLoop(ns, [st1 EXCEPT !.gamma = st1.totalMass], ns[node].backoff_)

\* The number of symbols 1..numSymbols-1 the mask leaves.
numUnseenSymbols(exclusionMask, numSymbols) ==
  Cardinality({i \in 1..(numSymbols - 1) : Unmasked(exclusionMask, i)})

RECURSIVE UniformLoop(_, _, _, _)

\* The first redistribution loop with `const p = totalMass /
\* numUnseenSymbols`: the share is taken from what the loop has left.  C21
\* rests on the share being taken from remainingMass.
UniformLoopUsesTotalMass(st, i, numSymbols, numUnseen) ==
  IF ~(i < numSymbols) THEN st
  ELSE IF Unmasked(st.mask, i)
  THEN LET q == Quotient(st, st.totalMass, numUnseen) IN
       UniformLoop([q.st EXCEPT !.probs[i + 1] = NumAdd(@, q.p),
                                !.totalMass = NumSub(@, q.p)],
                   i + 1, numSymbols, numUnseen)
  ELSE UniformLoop(st, i + 1, numSymbols, numUnseen)

\* The first redistribution loop without its test of the mask: every symbol
\* takes a share.  C25 rests on the test.
UniformLoopIgnoresMask(st, i, numSymbols, numUnseen) ==
  IF ~(i < numSymbols) \/ numUnseen = 0 THEN st
  ELSE LET q == Quotient(st, st.remainingMass, numUnseen) IN
       UniformLoop([q.st EXCEPT !.probs[i + 1] = NumAdd(@, q.p),
                                !.totalMass = NumSub(@, q.p)],
                   i + 1, numSymbols, numUnseen)

\* The first redistribution loop: remainingMass / numUnseenSymbols to every
\* symbol the mask leaves.
UniformLoop(st, i, numSymbols, numUnseen) ==
  IF ~(i < numSymbols) THEN st
  ELSE IF Unmasked(st.mask, i)
  THEN LET q == Quotient(st, st.remainingMass, numUnseen) IN
       UniformLoop([q.st EXCEPT !.probs[i + 1] = NumAdd(@, q.p),
                                !.totalMass = NumSub(@, q.p)],
                   i + 1, numSymbols, numUnseen)
  ELSE UniformLoop(st, i + 1, numSymbols, numUnseen)

RECURSIVE LeftLoop(_, _, _, _)

\* The second redistribution loop without `--leftSymbols`.  C30 rests on the
\* last symbol taking all that is left.
LeftLoopKeepsLeft(st, i, numSymbols, leftSymbols) ==
  IF ~(i < numSymbols) THEN st
  ELSE LET q == Quotient(st, st.totalMass, leftSymbols)
           st1 == [q.st EXCEPT !.probs[i + 1] = NumAdd(@, q.p),
                               !.totalMass = NumSub(@, q.p)]
       IN LeftLoop([st1 EXCEPT !.newProbMass = NumAdd(@, st1.probs[i + 1])],
                   i + 1, numSymbols, leftSymbols)

\* The second redistribution loop: totalMass / leftSymbols to every symbol.
LeftLoop(st, i, numSymbols, leftSymbols) ==
  IF ~(i < numSymbols) THEN st
  ELSE LET q == Quotient(st, st.totalMass, leftSymbols)
           st1 == [q.st EXCEPT !.probs[i + 1] = NumAdd(@, q.p),
                               !.totalMass = NumSub(@, q.p)]
       IN LeftLoop([st1 EXCEPT !.newProbMass = NumAdd(@, st1.probs[i + 1])],
                   i + 1, numSymbols, leftSymbols - 1)

\* Math.abs(1.0 - newProbMass) < epsilon
WithinEpsilon(st) ==
  LET diff == NumSub(Num(FALSE, st.den), st.newProbMass) IN
  MagCmp(MagMul(MagMul(diff.mag, EpsilonInvRoot), EpsilonInvRoot), st.den) < 0

\* The numbers of a getProbs call before its loops: probs and the exclusion
\* mask filled, totalMass = 1.0, gamma = totalMass.
StartState(numSymbols, exclusion) ==
  [den |-> MagOfInt(1),
   probs |-> [i \in 1..numSymbols |-> Zero],
   mask |-> IF exclusion THEN [i \in 1..numSymbols |-> FALSE] ELSE <<>>,
   totalMass |-> NumOfInt(1),
   gamma |-> NumOfInt(1),
   remainingMass |-> Zero,
   newProbMass |-> Zero]

\* The numbers of a getProbs call after the loop over the backoff chain.
WalkState(ns, numSymbols, exclusion, context) ==
  NodeLoop(ns, StartState(numSymbols, exclusion), context.head_)

\* The redistribution loops and the count of the unseen symbols with
\* `for (let i = 0; ...`: the root symbol is a symbol like the others.  C26
\* rests on the loops starting at 1.
FinalStateFromRoot(st1, numSymbols) ==
  LeftLoop(UniformLoop([st1 EXCEPT !.remainingMass = st1.totalMass], 0,
                       numSymbols,
                       Cardinality({i \in 0..(numSymbols - 1) :
                                      Unmasked(st1.mask, i)})),
           0, numSymbols, numSymbols)

\* The numbers of a getProbs call after the two redistribution loops that
\* follow the loop over the backoff chain.
FinalState(st1, numSymbols) ==
  LeftLoop(UniformLoop([st1 EXCEPT !.remainingMass = st1.totalMass], 1,
                       numSymbols, numUnseenSymbols(st1.mask, numSymbols)),
           1, numSymbols, numSymbols - 1)

\* PPMLanguageModel.getProbs: the array returned, as numerators num over the
\* denominator den, or thrown when an assert fails.
getProbs(ns, syms, exclusion, context) ==
  LET numSymbols == size(syms)
      st1 == WalkState(ns, numSymbols, exclusion, context)
      st3 == FinalState(st1, numSymbols)
  IN IF st1.totalMass.neg
     THEN [thrown |-> TRUE, den |-> <<>>, num |-> <<>>]
     ELSE IF st3.totalMass # Zero \/ ~WithinEpsilon(st3)
     THEN [thrown |-> TRUE, den |-> <<>>, num |-> <<>>]
     ELSE [thrown |-> FALSE, den |-> st3.den, num |-> st3.probs]

(***************************************************************************)
(* The record of the last call: the operation, how it ended ("done",       *)
(* "ignored" for the early return on a symbol <= rootSymbol, "thrown" for  *)
(* a failed assert) and the value a Vocabulary method returned.            *)
(***************************************************************************)
Call(op, outcome, ret) == [op |-> op, outcome |-> outcome, ret |-> ret]

NoProbs == [thrown |-> FALSE, den |-> <<>>, num |-> <<>>]

\* The characters of a training text that trainOnText passes to addSymbol:
\* letters and whitespace, upper-cased.
IsLetterOrSpace(ch) == ch \in {"a", "b", "A", "B", "C", "D", " "}

toUpperCase(ch) ==
  CASE ch = "a" -> "A"
    [] ch = "b" -> "B"
    [] OTHER -> ch

\* Vocabulary.trainOnText, the symbol part: addSymbol over the characters.
RECURSIVE trainOnText(_, _)
trainOnText(syms, text) ==
  IF text = <<>> THEN syms
  ELSE trainOnText(IF IsLetterOrSpace(Head(text))
                   THEN addSymbol(syms, toUpperCase(Head(text))).symbols
                   ELSE syms,
                   Tail(text))

\* Training texts the model is constructed after.
Texts == { <<>>, <<"1">>, <<"a">>, <<"b", "a", "B">>, <<"A", "b", "a", "1", "C">> }

\* The state after `new Vocabulary()`.
InitVocab ==
  /\ symbols_ = <<>>
  /\ constructed = FALSE
  /\ maxOrder_ = 0
  /\ useExclusion_ = FALSE
  /\ nodes = <<>>
  /\ ctxs = [c \in 1..MaxContexts |-> NoContext]
  /\ numObserved = 0
  /\ probs = NoProbs
  /\ last = Call("new Vocabulary", "done", 0)
  /\ ui = ScriptStart

\* The state after window.vocab.trainOnText(trainingText) (script.js), before
\* the model is constructed.
Init ==
  /\ symbols_ \in { trainOnText(<<>>, t) : t \in Texts }
  /\ constructed = FALSE
  /\ maxOrder_ = 0
  /\ useExclusion_ = FALSE
  /\ nodes = <<>>
  /\ ctxs = [c \in 1..MaxContexts |-> NoContext]
  /\ numObserved = 0
  /\ probs = NoProbs
  /\ last = Call("trainOnText", "done", 0)
  /\ ui = ScriptStart

\* vocab.addSymbol(ch)
AddSymbol(ch) ==
  LET r == addSymbol(symbols_, ch) IN
  /\ symbols_' = r.symbols
  /\ last' = Call("addSymbol", "done", r.ret)
  /\ UNCHANGED <<constructed, maxOrder_, useExclusion_, nodes, ctxs,
                 numObserved, probs>>

\* vocab.getSymbolIndex(ch)
GetSymbolIndex(ch) ==
  /\ last' = Call("getSymbolIndex", "done", getSymbolIndex(symbols_, ch))
  /\ UNCHANGED <<symbols_, constructed, maxOrder_, useExclusion_, nodes, ctxs,
                 numObserved, probs>>

(***************************************************************************)
(* The operations of the model.  Each action is the effect of one call on  *)
(* the vocabulary, the trie and the contexts; the specifications below     *)
(* say what they record of the call in last.                               *)
(***************************************************************************)
\* The constructor with `assert(this.vocab_.size() > 0)`.  C16 rests on the
\* bound of the assert.
constructOutcomeAdmitsOne == IF size(symbols_) > 0 THEN "done" ELSE "thrown"

\* How `new PPMLanguageModel(vocab, mo)` ends.
constructOutcome == IF size(symbols_) > 1 THEN "done" ELSE "thrown"

\* new PPMLanguageModel(vocab, mo)
Construct(mo) ==
  /\ ~constructed
  /\ probs' = NoProbs
  /\ IF constructOutcome = "done"
     THEN /\ constructed' = TRUE
          /\ maxOrder_' = mo
          /\ nodes' = <<NewNode>>
          /\ useExclusion_' = FALSE
     ELSE UNCHANGED <<constructed, maxOrder_, nodes, useExclusion_>>
  /\ UNCHANGED <<symbols_, ctxs, numObserved>>

\* ppm.useExclusion_ = b
SetExclusion(b) ==
  /\ constructed
  /\ useExclusion_' = b
  /\ probs' = NoProbs
  /\ UNCHANGED <<symbols_, constructed, maxOrder_, nodes, ctxs, numObserved>>

\* ctxs[c] = ppm.createContext()
CreateContext(c) ==
  /\ constructed
  /\ ctxs' = [ctxs EXCEPT ![c] = createContext]
  /\ probs' = NoProbs
  /\ UNCHANGED <<symbols_, constructed, maxOrder_, useExclusion_, nodes,
                 numObserved>>

\* ctxs[c] = ppm.cloneContext(ctxs[from])
CloneContext(from, c) ==
  /\ constructed
  /\ from # c
  /\ ctxs[from] # NoContext
  /\ ctxs' = [ctxs EXCEPT ![c] = cloneContext(ctxs[from])]
  /\ probs' = NoProbs
  /\ UNCHANGED <<symbols_, constructed, maxOrder_, useExclusion_, nodes,
                 numObserved>>

\* ppm.addSymbolToContext(ctxs[c], symbol)
AddSymbolToContext(c, symbol) ==
  /\ constructed
  /\ ctxs[c] # NoContext
  /\ LET r == addSymbolToContext(nodes, maxOrder_, size(symbols_), ctxs[c],
                                 symbol) IN
     /\ nodes' = r.nodes
     /\ ctxs' = [ctxs EXCEPT ![c] = r.context]
  /\ probs' = NoProbs
  /\ UNCHANGED <<symbols_, constructed, maxOrder_, useExclusion_, numObserved>>

\* ppm.addSymbolAndUpdate(ctxs[c], symbol)
AddSymbolAndUpdate(c, symbol) ==
  /\ constructed
  /\ ctxs[c] # NoContext
  /\ LET r == addSymbolAndUpdate(nodes, maxOrder_, size(symbols_), ctxs[c],
                                 symbol) IN
     /\ r.nodes # nodes => numObserved < MaxObserve
     /\ numObserved' = IF r.nodes # nodes THEN numObserved + 1 ELSE numObserved
     /\ nodes' = r.nodes
     /\ ctxs' = [ctxs EXCEPT ![c] = r.context]
  /\ probs' = NoProbs
  /\ UNCHANGED <<symbols_, constructed, maxOrder_, useExclusion_>>

\* getProbs walking `context.head_` itself down the backoff chain in place of
\* its local `node`, leaving the context on the root.  C17 rests on getProbs
\* only reading its argument.
GetProbsWalksContext(c) ==
  /\ constructed
  /\ ctxs[c] # NoContext
  /\ probs' = getProbs(nodes, symbols_, useExclusion_, ctxs[c])
  /\ ctxs' = [ctxs EXCEPT ![c] = [head_ |-> Root, order_ |-> 0]]
  /\ UNCHANGED <<symbols_, constructed, maxOrder_, useExclusion_, nodes,
                 numObserved>>

\* probs = ppm.getProbs(ctxs[c])
GetProbs(c) ==
  /\ constructed
  /\ ctxs[c] # NoContext
  /\ probs' = getProbs(nodes, symbols_, useExclusion_, ctxs[c])
  /\ UNCHANGED <<symbols_, constructed, maxOrder_, useExclusion_, nodes, ctxs,
                 numObserved>>

\* Symbol arguments: -1 (getSymbolIndex of an unknown character), the root
\* symbol, the symbols of the vocabulary and the first index past it.
SymbolArgs == -1..size(symbols_)

Contexts == 1..MaxContexts

(***************************************************************************)
(* Spec: the calls that build and walk the trie, each recorded in last.    *)
(* The exclusion flag, which only getProbs reads, stays off.               *)
(***************************************************************************)
Next ==
  /\ UNCHANGED ui
  /\ \/ \E mo \in 1..MaxOrderBound :
          /\ last.op # "construct"
          /\ Construct(mo)
          /\ last' = Call("construct", constructOutcome, 0)
     \/ \E c \in Contexts :
          CreateContext(c) /\ last' = Call("createContext", "done", 0)
     \/ \E from, c \in Contexts :
          CloneContext(from, c) /\ last' = Call("cloneContext", "done", 0)
     \/ \E c \in Contexts, s \in SymbolArgs :
          /\ AddSymbolToContext(c, s)
          /\ last' = Call("addSymbolToContext",
                          addSymbolToContext(nodes, maxOrder_, size(symbols_),
                                             ctxs[c], s).outcome, 0)
     \/ \E c \in Contexts, s \in SymbolArgs :
          /\ AddSymbolAndUpdate(c, s)
          /\ last' = Call("addSymbolAndUpdate",
                          addSymbolAndUpdate(nodes, maxOrder_, size(symbols_),
                                             ctxs[c], s).outcome, 0)

Spec == Init /\ [][Next]_vars

(***************************************************************************)
(* SpecProbs: the same calls and getProbs, whose result is kept in probs;  *)
(* last is not kept.                                                       *)
(***************************************************************************)
NextProbs ==
  /\ UNCHANGED ui
  /\ \/ \E mo \in 1..MaxOrderBound :
          constructOutcome = "done" /\ Construct(mo) /\ UNCHANGED last
     \/ \E b \in BOOLEAN : SetExclusion(b) /\ UNCHANGED last
     \/ \E c \in Contexts : CreateContext(c) /\ UNCHANGED last
     \/ \E from, c \in Contexts : CloneContext(from, c) /\ UNCHANGED last
     \/ \E c \in Contexts, s \in SymbolArgs :
          AddSymbolToContext(c, s) /\ UNCHANGED last
     \/ \E c \in Contexts, s \in SymbolArgs :
          AddSymbolAndUpdate(c, s) /\ UNCHANGED last
     \/ \E c \in Contexts : GetProbs(c) /\ UNCHANGED last

SpecProbs == Init /\ [][NextProbs]_vars

(***************************************************************************)
(* SpecVocab: the Vocabulary alone, from `new Vocabulary()`.               *)
(***************************************************************************)
NextVocab ==
  /\ UNCHANGED ui
  /\ \/ \E ch \in Chars : AddSymbol(ch)
     \/ \E ch \in Chars : GetSymbolIndex(ch)

SpecVocab == InitVocab /\ [][NextVocab]_vars

(***************************************************************************)
(* Notions the properties are stated with.                                 *)
(***************************************************************************)
Range(seq) == { seq[i] : i \in 1..Len(seq) }

\* The children of a node, as a set.
Children(ns, node) == Range(ChildList(ns, node))

\* The number of child links from the root to a node.
RECURSIVE Depth(_, _)
Depth(ns, node) ==
  IF \E p \in 1..Len(ns) : node \in Children(ns, p)
  THEN 1 + Depth(ns, CHOOSE p \in 1..Len(ns) : node \in Children(ns, p))
  ELSE 0

\* The backoff chain of a node: the node, its backoff, ..., the root.
RECURSIVE Chain(_, _)
Chain(ns, node) ==
  IF node = Null THEN <<>> ELSE <<node>> \o Chain(ns, ns[node].backoff_)

Min(a, b) == IF a < b THEN a ELSE b

IsPositive(x) == ~x.neg /\ x.mag # <<>>

Live(c) == ctxs[c] # NoContext

\* getProbs has returned an array.
Returned == probs.num # <<>>

(***************************************************************************)
(* Properties                                                              *)
(***************************************************************************)

\* C1: whenever getProbs is called, with exclusion off or on, it returns an
\* array whose entries at the indices 1..vocabularySize-1 sum to exactly 1.
C1_SumIsOne ==
  probs # NoProbs =>
    /\ ~probs.thrown
    /\ NumSum(SubSeq(probs.num, 2, Len(probs.num))) = Num(FALSE, probs.den)

\* C1 witness: getProbs has returned with exclusion on, for a context that
\* rests below the root on a node that has children.
C1_Witness ==
  /\ Returned
  /\ useExclusion_
  /\ \A c \in Contexts :
       Live(c) /\ ctxs[c].order_ >= 1 /\ nodes[ctxs[c].head_].child_ # Null

\* C2: every entry of the array getProbs returns is >= 0.
C2_NonNegative == \A i \in 1..Len(probs.num) : ~probs.num[i].neg

\* C2 witness: getProbs has returned after two observations, for a context
\* on a node whose children carry discounted counts.
C2_Witness ==
  /\ Returned
  /\ numObserved >= 2
  /\ \A c \in Contexts : Live(c) /\ nodes[ctxs[c].head_].child_ # Null

\* C3: getProbs gives a strictly positive probability to every character the
\* vocabulary holds, the never observed ones included.
C3_AllCharsPositive ==
  Returned => \A i \in 1..Len(symbols_) : IsPositive(probs.num[i])

\* C4: addSymbol and getSymbolIndex never return index 0 for a character that
\* was added to the vocabulary.
C4_NeverRootIndex ==
  (last.op \in {"addSymbol", "getSymbolIndex"} /\ last.ret # -1)
    => last.ret # rootSymbol

\* C5: a character that was added keeps the index it first received, adding
\* it again returns that index and leaves size() unchanged, and size() never
\* decreases.
C5_StableIndices ==
  [][ /\ size(symbols_') >= size(symbols_)
      /\ \A ch \in Chars :
           Includes(symbols_, ch) =>
             /\ getSymbolIndex(symbols_', ch) = getSymbolIndex(symbols_, ch)
             /\ AddSymbol(ch) =>
                  /\ last'.ret = getSymbolIndex(symbols_, ch)
                  /\ size(symbols_') = size(symbols_) ]_vars

\* C5 witness: a character other than the latest one was added again, and the
\* call returned its old index.
C5_Witness ==
  /\ last.op = "addSymbol"
  /\ size(symbols_) >= 3
  /\ last.ret = 1

\* C6: every context has 0 <= order <= maxOrder, after every call.
C6_OrderBounded ==
  \A c \in Contexts : Live(c) => 0 <= ctxs[c].order_ /\ ctxs[c].order_ <= maxOrder_

\* C6 witness: an observe has grown the trie one level below maxOrder and
\* left every context at order maxOrder.
C6_Witness ==
  /\ last = Call("addSymbolAndUpdate", "done", 0)
  /\ \A c \in Contexts : Live(c) /\ ctxs[c].order_ = maxOrder_
  /\ \E n \in 1..Len(nodes) : Depth(nodes, n) = maxOrder_ + 1

\* C7: observe(ctx, s) with 1 <= s < vocabularySize leaves ctx on a node with
\* symbol s at order min(previous order + 1, maxOrder): on the grown child of
\* the previous head when that order is within maxOrder, on the backoff of
\* the grown child, which is another node, when it is not.
C7_ObserveLands ==
  [][ \A c \in Contexts, s \in SymbolArgs :
        ( /\ last'.op = "addSymbolAndUpdate"
          /\ 1 <= s /\ s < size(symbols_)
          /\ AddSymbolAndUpdate(c, s) ) =>
          LET grown == findChildWithSymbol(nodes', ctxs[c].head_, s) IN
          /\ grown # Null
          /\ nodes'[ctxs'[c].head_].symbol_ = s
          /\ ctxs'[c].order_ = Min(ctxs[c].order_ + 1, maxOrder_)
          /\ IF ctxs[c].order_ + 1 > maxOrder_
             THEN /\ ctxs'[c].head_ = nodes'[grown].backoff_
                  /\ ctxs'[c].head_ # grown
             ELSE ctxs'[c].head_ = grown ]_vars

\* C7 witness: an observe at order maxOrder has returned: the trie has a node
\* at depth maxOrder + 1 and every context rests at order maxOrder on a node
\* that is the backoff of such a node.
C7_Witness ==
  /\ last = Call("addSymbolAndUpdate", "done", 0)
  /\ \A c \in Contexts :
       /\ Live(c)
       /\ ctxs[c].order_ = maxOrder_
       /\ \E n \in 1..Len(nodes) :
            /\ Depth(nodes, n) = maxOrder_ + 1
            /\ nodes[n].backoff_ = ctxs[c].head_

\* C8: advance never changes the trie: the nodes, their counts, child lists
\* and backoff links are the same before and after the call.
C8_AdvanceKeepsTrie ==
  [][ \A c \in Contexts, s \in SymbolArgs :
        (last'.op = "addSymbolToContext" /\ AddSymbolToContext(c, s))
          => nodes' = nodes ]_vars

\* C8 witness: an advance has moved every context off the root of a trie
\* that observations have grown.
C8_Witness ==
  /\ last = Call("addSymbolToContext", "done", 0)
  /\ Len(nodes) >= 3
  /\ \A c \in Contexts : Live(c) /\ ctxs[c].order_ >= 1

\* The positions in the backoff chain of the head of context c whose node
\* lies at a depth below maxOrder and has a child with symbol s.
Extensible(c, s) ==
  LET chain == Chain(nodes, ctxs[c].head_) IN
  { i \in 1..Len(chain) :
      /\ Depth(nodes, chain[i]) < maxOrder_
      /\ findChildWithSymbol(nodes, chain[i], s) # Null }

\* C9: advance(ctx, s) with 1 <= s < vocabularySize moves ctx to the child
\* with symbol s of the first node of the chain head, head.backoff, ..., root
\* that lies below maxOrder and has such a child, at one more than that
\* node's order; when no node of the chain qualifies, ctx is (root, 0).
C9_AdvanceLands ==
  [][ \A c \in Contexts, s \in SymbolArgs :
        ( /\ last'.op = "addSymbolToContext"
          /\ 1 <= s /\ s < size(symbols_)
          /\ AddSymbolToContext(c, s) ) =>
          LET chain == Chain(nodes, ctxs[c].head_)
              ext == Extensible(c, s)
          IN IF ext = {}
             THEN ctxs'[c] = [head_ |-> Root, order_ |-> 0]
             ELSE LET first == CHOOSE i \in ext : \A j \in ext : i <= j IN
                  /\ ctxs'[c].head_ = findChildWithSymbol(nodes, chain[first], s)
                  /\ ctxs'[c].order_ = Depth(nodes, chain[first]) + 1 ]_vars

\* C9 witness: an advance has returned in a trie with a node below depth
\* maxOrder, and every context rests at order maxOrder on a node with
\* children: one that the advance reached there cannot be extended further.
C9_Witness ==
  /\ last = Call("addSymbolToContext", "done", 0)
  /\ \A c \in Contexts :
       /\ Live(c)
       /\ ctxs[c].order_ = maxOrder_
       /\ nodes[ctxs[c].head_].child_ # Null

\* C10: the trie only grows: no call removes a node, takes a child from a
\* node or lowers a count.
C10_TrieOnlyGrows ==
  [][ /\ Len(nodes') >= Len(nodes)
      /\ \A n \in 1..Len(nodes) :
           /\ nodes'[n].symbol_ = nodes[n].symbol_
           /\ nodes'[n].count_ >= nodes[n].count_
           /\ Children(nodes, n) \subseteq Children(nodes', n) ]_vars

\* C10 witness: an observe has given the root a second child and raised a
\* count above 1.
C10_Witness ==
  /\ last = Call("addSymbolAndUpdate", "done", 0)
  /\ Cardinality(Children(nodes, Root)) >= 2
  /\ \E n \in 1..Len(nodes) : nodes[n].count_ >= 2

\* The positions in the backoff chain of the head of context c whose node
\* has a child with symbol s.
Counting(c, s) ==
  LET chain == Chain(nodes, ctxs[c].head_) IN
  { i \in 1..Len(chain) : findChildWithSymbol(nodes, chain[i], s) # Null }

\* C11: observe(ctx, s) with 1 <= s < vocabularySize raises by exactly 1 the
\* count of the child with symbol s of the first node of the chain head,
\* head.backoff, ..., root that has such a child, and creates one node, with
\* count 1, under every node of the chain before that one; when no node of
\* the chain has the child, it creates one under every node of the chain and
\* raises no count.  No other count changes; when the head has the child, no
\* node is created.
C11_UpdateExclusion ==
  [][ \A c \in Contexts, s \in SymbolArgs :
        ( /\ last'.op = "addSymbolAndUpdate"
          /\ 1 <= s /\ s < size(symbols_)
          /\ AddSymbolAndUpdate(c, s) ) =>
          LET chain == Chain(nodes, ctxs[c].head_)
              has == Counting(c, s)
              first == IF has = {} THEN Len(chain) + 1
                       ELSE CHOOSE i \in has : \A j \in has : i <= j
              counted == IF has = {} THEN Null
                         ELSE findChildWithSymbol(nodes, chain[first], s)
          IN /\ Len(nodes') = Len(nodes) + first - 1
             /\ \A n \in 1..Len(nodes) :
                  nodes'[n].count_ =
                    IF n = counted THEN nodes[n].count_ + 1 ELSE nodes[n].count_
             /\ \A n \in (Len(nodes) + 1)..Len(nodes') :
                  /\ nodes'[n].count_ = 1
                  /\ nodes'[n].symbol_ = s
                  /\ \E i \in 1..(first - 1) : n \in Children(nodes', chain[i]) ]_vars

\* C11 witness: an observe has created a node below the root whose backoff,
\* a node of a shorter context that had the symbol already, was counted again
\* in its place; the context that observed rests on the chain of that node.
C11_Witness ==
  /\ last = Call("addSymbolAndUpdate", "done", 0)
  /\ nodes[Len(nodes)].count_ = 1
  /\ nodes[Len(nodes)].backoff_ # Root
  /\ nodes[nodes[Len(nodes)].backoff_].count_ >= 2
  /\ \E c \in Contexts :
       Live(c) /\ Len(nodes) \in Range(Chain(nodes, ctxs[c].head_))

\* The node a node is a child of.
Parent(ns, node) == CHOOSE p \in 1..Len(ns) : node \in Children(ns, p)

\* The symbols on the way from the root to a node.
RECURSIVE Path(_, _)
Path(ns, node) ==
  IF node = Root THEN <<>>
  ELSE Append(Path(ns, Parent(ns, node)), ns[node].symbol_)

\* C12: in every reachable trie the root has no backoff, and the backoff of
\* every other node N is the node whose path is the path of N without its
\* first symbol: it lies one level closer to the root, it is the root for N
\* at depth 1 and carries the symbol of N otherwise, and the backoff chain of
\* N descends one level at a time to the root.
C12_BackoffInvariant ==
  constructed =>
    /\ nodes[Root].backoff_ = Null
    /\ \A n \in 2..Len(nodes) :
         LET b == nodes[n].backoff_ IN
         /\ b \in 1..Len(nodes)
         /\ Path(nodes, b) = Tail(Path(nodes, n))
         /\ Depth(nodes, b) = Depth(nodes, n) - 1
         /\ Depth(nodes, n) = 1 => b = Root
         /\ Depth(nodes, n) > 1 => nodes[b].symbol_ = nodes[n].symbol_
         /\ LET chain == Chain(nodes, n) IN
            /\ chain[Len(chain)] = Root
            /\ \A i \in 1..(Len(chain) - 1) :
                 Depth(nodes, chain[i + 1]) = Depth(nodes, chain[i]) - 1

\* C12 witness: the trie has a node at depth maxOrder + 1 >= 3 whose path
\* holds two different symbols.
C12_Witness ==
  \E n \in 1..Len(nodes) :
    /\ Depth(nodes, n) = maxOrder_ + 1
    /\ Depth(nodes, n) >= 3
    /\ Cardinality(Range(Path(nodes, n))) >= 2

\* C13: no call changes the backoff link of a node that exists, and every
\* node a call creates has its backoff link when the call returns.
C13_BackoffFixed ==
  [][ constructed =>
        /\ \A n \in 1..Len(nodes) : nodes'[n].backoff_ = nodes[n].backoff_
        /\ \A n \in (Len(nodes) + 1)..Len(nodes') :
             nodes'[n].backoff_ \in 1..Len(nodes') ]_vars

\* C13 witness: an observe has counted again a node at depth >= 2, whose
\* backoff is not the root, and created a node below it.
C13_Witness ==
  /\ last = Call("addSymbolAndUpdate", "done", 0)
  /\ \E n \in 1..Len(nodes) :
       /\ Depth(nodes, n) >= 2
       /\ nodes[n].count_ >= 2
       /\ nodes[n].backoff_ # Root
       /\ nodes[n].child_ # Null

\* C14: advance and observe called with a symbol <= 0 (the root symbol, or
\* the -1 of getSymbolIndex for an unknown character) return without an
\* error and leave the trie and every context as they were.
C14_RootSymbolIgnored ==
  [][ \A c \in Contexts, s \in SymbolArgs :
        (constructed /\ Live(c) /\ s <= 0) =>
          /\ addSymbolToContext(nodes, maxOrder_, size(symbols_), ctxs[c],
                                s).outcome = "ignored"
          /\ addSymbolAndUpdate(nodes, maxOrder_, size(symbols_), ctxs[c],
                                s).outcome = "ignored"
          /\ (last'.op = "addSymbolToContext" /\ AddSymbolToContext(c, s))
               => nodes' = nodes /\ ctxs' = ctxs
          /\ (last'.op = "addSymbolAndUpdate" /\ AddSymbolAndUpdate(c, s))
               => nodes' = nodes /\ ctxs' = ctxs ]_vars

\* C14 witness: an observe was ignored in a trie that observations have
\* grown, with every context below the root.
C14_Witness ==
  /\ last = Call("addSymbolAndUpdate", "ignored", 0)
  /\ Len(nodes) >= 3
  /\ \A c \in Contexts : Live(c) /\ ctxs[c].order_ >= 1

\* C15: advance and observe called with a symbol >= vocabularySize throw, and
\* the call that throws leaves the trie and every context as they were.
C15_SymbolPastVocabularyThrows ==
  [][ \A c \in Contexts, s \in SymbolArgs :
        (constructed /\ Live(c) /\ s >= size(symbols_)) =>
          /\ addSymbolToContext(nodes, maxOrder_, size(symbols_), ctxs[c],
                                s).outcome = "thrown"
          /\ addSymbolAndUpdate(nodes, maxOrder_, size(symbols_), ctxs[c],
                                s).outcome = "thrown"
          /\ (last'.op = "addSymbolToContext" /\ AddSymbolToContext(c, s))
               => nodes' = nodes /\ ctxs' = ctxs
          /\ (last'.op = "addSymbolAndUpdate" /\ AddSymbolAndUpdate(c, s))
               => nodes' = nodes /\ ctxs' = ctxs ]_vars

\* C15 witness: an observe has thrown in a trie that observations have grown,
\* with every context below the root on a node with children.
C15_Witness ==
  /\ last = Call("addSymbolAndUpdate", "thrown", 0)
  /\ Len(nodes) >= 3
  /\ \A c \in Contexts :
       Live(c) /\ ctxs[c].order_ >= 1 /\ nodes[ctxs[c].head_].child_ # Null

\* C16: `new PPMLanguageModel(vocab, maxOrder)` throws when vocab.size() < 2
\* and leaves no model; when vocab.size() >= 2 it returns a model whose trie
\* is the root alone, without children and without backoff.
C16_ConstructNeedsTwo ==
  [][ \A mo \in 1..MaxOrderBound :
        (last'.op = "construct" /\ Construct(mo)) =>
          IF size(symbols_) < 2
          THEN /\ last'.outcome = "thrown"
               /\ ~constructed'
               /\ nodes' = <<>>
          ELSE /\ last'.outcome = "done"
               /\ constructed'
               /\ maxOrder_' = mo
               /\ Len(nodes') = 1
               /\ nodes'[Root].child_ = Null
               /\ nodes'[Root].backoff_ = Null
               /\ nodes'[Root].symbol_ = rootSymbol ]_vars

\* C16 witness: the constructor has thrown on a vocabulary of one symbol.
C16_Witness ==
  /\ last = Call("construct", "thrown", 0)
  /\ size(symbols_) = 1

\* C17: in a constructed model only observe changes the trie: a step that
\* changes a node, a count, a child list or a backoff link is a step of
\* addSymbolAndUpdate; getProbs, createContext and cloneContext leave the
\* trie as it was, and getProbs leaves every context as it was.
C17_OnlyObserveMutates ==
  [][ constructed =>
        /\ nodes' # nodes =>
             \E c \in Contexts, s \in SymbolArgs : AddSymbolAndUpdate(c, s)
        /\ \A c \in Contexts :
             /\ (probs' # NoProbs /\ GetProbs(c))
                  => nodes' = nodes /\ ctxs' = ctxs
             /\ CreateContext(c) => nodes' = nodes
             /\ \A from \in Contexts : CloneContext(from, c) => nodes' = nodes
    ]_vars

\* C17 witness: getProbs has returned, with exclusion off, in a trie of four
\* nodes or more, with the contexts below the root on different nodes.
C17_Witness ==
  /\ Returned
  /\ ~useExclusion_
  /\ Len(nodes) >= 4
  /\ \A c \in Contexts : Live(c) /\ ctxs[c].order_ >= 1
  /\ \E c, d \in Contexts : ctxs[c].head_ # ctxs[d].head_

\* C18: createContext returns a context on the root at order 0, whatever
\* calls came before it.
C18_CreateContextAtRoot ==
  [][ \A c \in Contexts :
        (last'.op = "createContext" /\ CreateContext(c)) =>
          /\ ctxs'[c].head_ = Root
          /\ ctxs'[c].order_ = 0
          /\ nodes'[ctxs'[c].head_].backoff_ = Null ]_vars

\* C18 witness: createContext has returned a context on the root after two
\* observations or more, while another context rests at order maxOrder.
C18_Witness ==
  /\ last = Call("createContext", "done", 0)
  /\ numObserved >= 2
  /\ \E c, d \in Contexts :
       /\ ctxs[c] = [head_ |-> Root, order_ |-> 0]
       /\ Live(d) /\ ctxs[d].order_ = maxOrder_

\* C19: cloneContext returns a context with the node and the order of its
\* argument and leaves its argument as it was; an advance or an observe on
\* one context leaves the node and the order of every other context as they
\* were.
C19_CloneIndependent ==
  [][ \A c \in Contexts :
        /\ \A from \in Contexts :
             (last'.op = "cloneContext" /\ CloneContext(from, c)) =>
               /\ ctxs'[c].head_ = ctxs[from].head_
               /\ ctxs'[c].order_ = ctxs[from].order_
               /\ ctxs'[from] = ctxs[from]
        /\ \A s \in SymbolArgs :
             ( \/ last'.op = "addSymbolToContext" /\ AddSymbolToContext(c, s)
               \/ last'.op = "addSymbolAndUpdate" /\ AddSymbolAndUpdate(c, s) )
               => \A d \in Contexts \ {c} : ctxs'[d] = ctxs[d] ]_vars

\* C19 witness: cloneContext has returned the copy of a context that rests
\* at order maxOrder >= 2.
C19_Witness ==
  /\ last = Call("cloneContext", "done", 0)
  /\ \A c, d \in Contexts : ctxs[c] = ctxs[d]
  /\ \A c \in Contexts : Live(c) /\ ctxs[c].order_ = maxOrder_
  /\ maxOrder_ >= 2

\* C20: in every reachable state of the model, for every context,
\* getProbs(cloneContext(ctx)) is the array getProbs(ctx), entry by entry.
C20_CloneSameProbs ==
  constructed =>
    \A c \in Contexts :
      Live(c) =>
        getProbs(nodes, symbols_, useExclusion_, cloneContext(ctxs[c]))
          = getProbs(nodes, symbols_, useExclusion_, ctxs[c])

\* C20 witness: getProbs has returned for a context and its copy, which rest
\* below the root on a node with children, in a trie of four nodes or more.
C20_Witness ==
  /\ Returned
  /\ Len(nodes) >= 4
  /\ \A c, d \in Contexts : Live(c) /\ ctxs[c] = ctxs[d]
  /\ \A c \in Contexts :
       /\ ctxs[c].order_ >= 1
       /\ nodes[ctxs[c].head_].child_ # Null
       /\ probs = getProbs(nodes, symbols_, useExclusion_,
                           cloneContext(ctxs[c]))

\* C21: in a model that has observed nothing since its construction getProbs
\* gives every symbol 1..vocabularySize-1 the probability
\* 1 / (vocabularySize - 1), with exclusion off or on.
C21_FreshModelUniform ==
  (probs # NoProbs /\ Len(nodes) = 1) =>
    /\ ~probs.thrown
    /\ \A i \in 2..Len(probs.num) :
         NumMul(probs.num[i], size(symbols_) - 1) = Num(FALSE, probs.den)

\* C21 witness: getProbs has returned for the context of a model of three
\* symbols that has observed nothing.
C21_Witness ==
  /\ Returned
  /\ Len(nodes) = 1
  /\ size(symbols_) = 3
  /\ \E c \in Contexts : ctxs[c] = createContext

\* The trie and the context after addSymbolAndUpdate(context, s) for the
\* symbols s of a sequence, in their order.
RECURSIVE ObserveAll(_, _, _, _, _)
ObserveAll(ns, mo, numSymbols, context, seq) ==
  IF seq = <<>> THEN [nodes |-> ns, context |-> context]
  ELSE LET r == addSymbolAndUpdate(ns, mo, numSymbols, context, Head(seq)) IN
       ObserveAll(r.nodes, mo, numSymbols, r.context, Tail(seq))

\* A fresh model of three symbols after the observation of 1, 1, 2 from a
\* fresh context, with maxOrder = 2.
AfterAAB == ObserveAll(<<NewNode>>, 2, 3, createContext, <<1, 1, 2>>)

\* C22: in a model of three symbols (the root symbol, A = 1, B = 2) with
\* maxOrder = 2 that has observed A, A, B from a fresh context, getProbs for
\* that context gives A a strictly higher probability than B.
C22_AABPrefersA ==
  \A c \in Contexts :
    ( /\ constructed /\ maxOrder_ = 2 /\ size(symbols_) = 3
      /\ nodes = AfterAAB.nodes
      /\ ctxs[c] = AfterAAB.context ) =>
      LET p == getProbs(nodes, symbols_, useExclusion_, ctxs[c]) IN
      /\ ~p.thrown
      /\ IsPositive(NumSub(p.num[2], p.num[3]))

\* C22 witness: getProbs has returned for the context that observed A, A, B
\* in a fresh model of three symbols with maxOrder = 2.
C22_Witness ==
  /\ Returned
  /\ maxOrder_ = 2 /\ size(symbols_) = 3
  /\ numObserved = 3
  /\ nodes = AfterAAB.nodes
  /\ \A c \in Contexts :
       /\ ctxs[c] = AfterAAB.context
       /\ probs = getProbs(nodes, symbols_, useExclusion_, ctxs[c])

\* The product of two magnitudes, and of a signed integer and a magnitude.
RECURSIVE MagTimes(_, _)
MagTimes(a, b) ==
  IF b = <<>> THEN <<>>
  ELSE MagNorm(MagAdd(MagMul(a, Head(b)), <<0>> \o MagTimes(a, Tail(b))))

NumTimes(x, m) == Num(x.neg, MagTimes(x.mag, m))

\* x / d = y / e for numerators x, y over the denominators d, e
SameFraction(x, d, y, e) == NumTimes(x, e) = NumTimes(y, d)

\* The symbols of the children of a node.
ChildSymbols(ns, node) == { ns[k].symbol_ : k \in Children(ns, node) }

\* The children of the node at position k of a chain whose symbol no node
\* before it in the chain has as a child.
FirstSeen(ns, chain, k) ==
  { u \in Children(ns, chain[k]) :
      \A j \in 1..(k - 1) : ns[u].symbol_ \notin ChildSymbols(ns, chain[j]) }

RECURSIVE SumOfCounts(_, _)
SumOfCounts(ns, S) ==
  IF S = {} THEN 0
  ELSE LET u == CHOOSE u \in S : TRUE IN
       ns[u].count_ + SumOfCounts(ns, S \ {u})

\* What the walk of getProbs over a chain gives when every symbol takes mass
\* at the first node of the chain that has it as a child and nowhere else,
\* and the total of a node counts the children that take mass there only:
\* the masses of the symbols and the mass left, as numerators over den.
RECURSIVE SingleCountedWalk(_, _, _, _)
SingleCountedWalk(ns, chain, k, acc) ==
  IF k > Len(chain) THEN acc
  ELSE
    LET U == FirstSeen(ns, chain, k)
        total == SumOfCounts(ns, U)
        f == knDen * total + knAlphaNum
        taker(i) == { u \in U : ns[u].symbol_ = i - 1 }
    IN IF total = 0 THEN SingleCountedWalk(ns, chain, k + 1, acc)
       ELSE SingleCountedWalk(ns, chain, k + 1,
              [den |-> MagMul(acc.den, f),
               mass |-> [i \in 1..Len(acc.mass) |->
                           IF taker(i) # {}
                           THEN NumMul(acc.left,
                                       knDen * SumOfCounts(ns, taker(i))
                                         - knBetaNum)
                           ELSE NumMul(acc.mass[i], f)],
               left |-> NumMul(acc.left,
                               knAlphaNum + knBetaNum * Cardinality(U))])

\* C24: with exclusion on, the walk of getProbs over the backoff chain of a
\* context gives every symbol mass at one node of the chain at most, the
\* first that has the symbol as a child; at the nodes after it the count of
\* that symbol's child is left out of the total and the symbol takes nothing.
C24_ExclusionSingleCounts ==
  (constructed /\ useExclusion_) =>
    \A c \in Contexts :
      Live(c) =>
        LET w == WalkState(nodes, size(symbols_), TRUE, ctxs[c])
            s == SingleCountedWalk(nodes, Chain(nodes, ctxs[c].head_), 1,
                   [den |-> MagOfInt(1),
                    mass |-> [i \in 1..size(symbols_) |-> Zero],
                    left |-> NumOfInt(1)])
        IN /\ SameFraction(w.totalMass, w.den, s.left, s.den)
           /\ \A i \in 1..size(symbols_) :
                SameFraction(w.probs[i], w.den, s.mass[i], s.den)

\* C24 witness: getProbs has returned with exclusion on for a context below
\* the root whose head and the backoff of its head have a child with the
\* same symbol, the backoff having a child with another symbol as well.
C24_Witness ==
  /\ Returned
  /\ useExclusion_
  /\ \E c \in Contexts :
       /\ Live(c)
       /\ ctxs[c].order_ >= 1
       /\ probs = getProbs(nodes, symbols_, useExclusion_, ctxs[c])
       /\ LET head == ctxs[c].head_
              back == nodes[head].backoff_
          IN /\ ChildSymbols(nodes, head) # {}
             /\ ChildSymbols(nodes, head) \subseteq ChildSymbols(nodes, back)
             /\ ChildSymbols(nodes, head) # ChildSymbols(nodes, back)

\* The symbols 1..vocabularySize-1.
RealSymbols == 1..(size(symbols_) - 1)

\* The symbols that getProbs for context c excludes in its walk: with
\* exclusion on, those that a node of the backoff chain has as a child.
Excluded(c) ==
  IF useExclusion_
  THEN UNION { ChildSymbols(nodes, n) : n \in Range(Chain(nodes, ctxs[c].head_)) }
  ELSE {}

\* getProbs for context c returns, for every symbol, what the walk over the
\* backoff chain gave it and, for the symbols of takers, an equal share of
\* the mass the walk left.
ResidualSharedBy(c, takers) ==
  LET w == WalkState(nodes, size(symbols_), useExclusion_, ctxs[c])
      p == getProbs(nodes, symbols_, useExclusion_, ctxs[c])
      k == Cardinality(takers)
  IN /\ ~p.thrown
     /\ \A i \in 0..(size(symbols_) - 1) :
          IF i \in takers
          THEN SameFraction(p.num[i + 1], p.den,
                            NumAdd(NumMul(w.probs[i + 1], k), w.totalMass),
                            MagMul(w.den, k))
          ELSE SameFraction(p.num[i + 1], p.den, w.probs[i + 1], w.den)

\* C25 as it is claimed: the mass the walk leaves is shared equally by all
\* symbols 1..vocabularySize-1 with exclusion off and by those the walk did
\* not exclude with exclusion on, where an excluded symbol takes no share.
C25_ResidualToUnseenOnly ==
  constructed =>
    \A c \in Contexts :
      Live(c) => ResidualSharedBy(c, RealSymbols \ Excluded(c))

\* C25, amended: as claimed, unless with exclusion on the walk has excluded
\* every symbol 1..vocabularySize-1: then the mass it leaves is shared
\* equally by all of them.
C25_ResidualRedistributed ==
  constructed =>
    \A c \in Contexts :
      Live(c) =>
        ResidualSharedBy(c, IF RealSymbols \subseteq Excluded(c)
                            THEN RealSymbols
                            ELSE RealSymbols \ Excluded(c))

\* C25 witness: getProbs has returned with exclusion on for a context whose
\* walk excludes one of the symbols 1..vocabularySize-1 and leaves another.
C25_Witness ==
  /\ Returned
  /\ useExclusion_
  /\ \E c \in Contexts :
       /\ Live(c)
       /\ probs = getProbs(nodes, symbols_, useExclusion_, ctxs[c])
       /\ Excluded(c) # {}
       /\ RealSymbols \ Excluded(c) # {}

\* C26: the array getProbs returns has vocabularySize entries, and its entry
\* at index 0 is 0.
C26_RootEntryZero ==
  probs # NoProbs =>
    /\ ~probs.thrown
    /\ Len(probs.num) = size(symbols_)
    /\ probs.num[1] = Zero

\* C26 witness: getProbs has returned, with exclusion off, in a model of
\* three symbols for a context at order 2 in a trie of five nodes or more.
C26_Witness ==
  /\ Returned
  /\ ~useExclusion_
  /\ size(symbols_) = 3
  /\ Len(nodes) >= 5
  /\ \E c \in Contexts :
       /\ Live(c) /\ ctxs[c].order_ = 2
       /\ probs = getProbs(nodes, symbols_, useExclusion_, ctxs[c])

\* Whenever a node with the path w exists, the node with the path of w
\* without its first symbol exists.
SuffixClosed(ns) ==
  \A n \in 2..Len(ns) : \E m \in 1..Len(ns) : Path(ns, m) = Tail(Path(ns, n))

\* C27: after observe(ctx, s) with 1 <= s < vocabularySize every node of the
\* backoff chain of the head ctx had before the call has a child with symbol
\* s, and every trie a call leaves is suffix-closed.
C27_SuffixClosedGrowth ==
  [][ /\ \A c \in Contexts, s \in SymbolArgs :
           ( /\ last'.op = "addSymbolAndUpdate"
             /\ 1 <= s /\ s < size(symbols_)
             /\ AddSymbolAndUpdate(c, s) ) =>
             \A n \in Range(Chain(nodes, ctxs[c].head_)) :
               findChildWithSymbol(nodes', n, s) # Null
      /\ nodes' # nodes => SuffixClosed(nodes') ]_vars

\* C27 witness: one observe has created three nodes, a child with its symbol
\* under every node of a backoff chain of three nodes.
C27_Witness ==
  /\ last = Call("addSymbolAndUpdate", "done", 0)
  /\ Len(nodes) >= 6
  /\ LET n == Len(nodes) IN
     /\ nodes[n].backoff_ = Root
     /\ nodes[n - 1].backoff_ = n
     /\ nodes[n - 2].backoff_ = n - 1
     /\ \A k \in (n - 2)..n : nodes[k].count_ = 1

\* The number of calls of addSymbolToNode_ that addSymbolToNode_(node, symbol)
\* makes, itself included: every call but the last creates one node and
\* calls itself; the last one either counts an existing child or creates a
\* child of the root.
NestedCalls(ns, node, symbol) ==
  LET r == addSymbolToNode_(ns, node, symbol) IN
  (Len(r.nodes) - Len(ns))
    + (IF \E n \in 1..Len(ns) : r.nodes[n].count_ # ns[n].count_ THEN 1 ELSE 0)

\* C28: in every reachable trie addSymbolToNode_ called on a node at depth d
\* with a symbol 1..vocabularySize-1 returns after d + 1 nested calls at
\* most, and the backoff of every node but the root lies one level closer to
\* the root.
C28_GrowthTerminates ==
  constructed =>
    \A n \in 1..Len(nodes) :
      /\ n # Root =>
           /\ nodes[n].backoff_ \in 1..Len(nodes)
           /\ Depth(nodes, nodes[n].backoff_) = Depth(nodes, n) - 1
      /\ \A s \in RealSymbols :
           /\ ~addSymbolToNode_(nodes, n, s).err
           /\ 1 <= NestedCalls(nodes, n, s)
           /\ NestedCalls(nodes, n, s) <= Depth(nodes, n) + 1

\* C28 witness: a context rests at depth 2 on a node from which the growth
\* with some symbol takes three calls, one for every node of the chain.
C28_Witness ==
  \E c \in Contexts, s \in RealSymbols :
    /\ Live(c)
    /\ Depth(nodes, ctxs[c].head_) = 2
    /\ NestedCalls(nodes, ctxs[c].head_, s) = 3

\* C29: in every reachable state observe with a symbol 1..vocabularySize-1
\* passes its asserts for every context: every node but the root has a
\* backoff link, addSymbolToNode_ does not throw, and the node it returns is
\* the child that findChildWithSymbol finds under the head of the context.
C29_ObserveNeverAborts ==
  constructed =>
    /\ \A n \in 2..Len(nodes) : nodes[n].backoff_ # Null
    /\ \A c \in Contexts, s \in RealSymbols :
         Live(c) =>
           LET r == addSymbolToNode_(nodes, ctxs[c].head_, s) IN
           /\ ~r.err
           /\ r.ret # Null
           /\ r.ret = findChildWithSymbol(r.nodes, ctxs[c].head_, s)
           /\ addSymbolAndUpdate(nodes, maxOrder_, size(symbols_), ctxs[c],
                                 s).outcome = "done"

\* C29 witness: an observe has returned and left every context at order
\* maxOrder = 2 on a node without children, where the next observe has to
\* build a child under every node of the chain that lacks one.
C29_Witness ==
  /\ last = Call("addSymbolAndUpdate", "done", 0)
  /\ maxOrder_ = 2
  /\ \A c \in Contexts :
       /\ Live(c)
       /\ ctxs[c].order_ = 2
       /\ nodes[ctxs[c].head_].child_ = Null
       /\ nodes[nodes[ctxs[c].head_].backoff_].child_ = Null

\* C30: in every reachable state getProbs passes its asserts for every
\* context, with exclusion off or on: the mass left after the loop over the
\* backoff chain is not negative, and the mass left after the two
\* redistribution loops is exactly 0.
C30_ProbsNeverAbort ==
  constructed =>
    \A c \in Contexts :
      Live(c) =>
        LET w == WalkState(nodes, size(symbols_), useExclusion_, ctxs[c])
            f == FinalState(w, size(symbols_))
        IN /\ ~w.totalMass.neg
           /\ f.totalMass = Zero
           /\ ~getProbs(nodes, symbols_, useExclusion_, ctxs[c]).thrown

\* C30 witness: getProbs has returned with exclusion on in a model of three
\* symbols for a context whose walk excludes both symbols 1 and 2, so that
\* the second redistribution loop alone takes the mass to 0.
C30_Witness ==
  /\ Returned
  /\ useExclusion_
  /\ size(symbols_) = 3
  /\ \E c \in Contexts :
       /\ Live(c)
       /\ probs = getProbs(nodes, symbols_, useExclusion_, ctxs[c])
       /\ RealSymbols \subseteq Excluded(c)

\* The sequences of length n over a set.
RECURSIVE SeqsOf(_, _)
SeqsOf(S, n) ==
  IF n = 0 THEN { <<>> }
  ELSE { Append(q, x) : q \in SeqsOf(S, n - 1), x \in S }

\* The contiguous substrings of a sequence of length 1 to maxLen.
Substrings(seq, maxLen) ==
  UNION { { SubSeq(seq, i, j) : j \in i..Min(Len(seq), i + maxLen - 1) } :
          i \in 1..Len(seq) }

\* The last k elements of a sequence.
LastOf(seq, k) == SubSeq(seq, Len(seq) - k + 1, Len(seq))

\* The root-to-node paths of the nodes of a trie other than the root.
Paths(ns) == { Path(ns, n) : n \in 2..Len(ns) }

\* C31: in a fresh model, observing any sequence x1..xn of symbols
\* 1..vocabularySize-1 through one context created at the root leaves a trie
\* whose root-to-node paths are exactly the contiguous substrings of x1..xn
\* of length 1 to maxOrder + 1, and leaves the context on the node whose path
\* is the last min(n, maxOrder) symbols of the sequence.
C31_TrieHoldsSubstrings ==
  (constructed /\ Len(nodes) = 1) =>
    \A n \in 0..MaxObserve :
      \A seq \in SeqsOf(RealSymbols, n) :
        LET r == ObserveAll(nodes, maxOrder_, size(symbols_), createContext,
                            seq)
        IN /\ Paths(r.nodes) = Substrings(seq, maxOrder_ + 1)
           /\ r.context.head_ \in 1..Len(r.nodes)
           /\ Path(r.nodes, r.context.head_) = LastOf(seq, Min(n, maxOrder_))

\* C31 witness: the model with maxOrder = 2 has observed, through one context
\* from the root, a sequence of MaxObserve symbols that holds two different
\* ones, and its trie is the one of the substrings of length 1 to 3.
C31_Witness ==
  /\ last = Call("addSymbolAndUpdate", "done", 0)
  /\ numObserved = MaxObserve
  /\ maxOrder_ = 2
  /\ \E seq \in SeqsOf(RealSymbols, MaxObserve) :
       /\ Cardinality(Range(seq)) = 2
       /\ LET r == ObserveAll(<<NewNode>>, maxOrder_, size(symbols_),
                              createContext, seq)
          IN /\ nodes = r.nodes
             /\ \E c \in Contexts : ctxs[c] = r.context
       /\ Paths(nodes) = Substrings(seq, 3)
       /\ \E w \in Paths(nodes) : Len(w) = 3

\* C32: in every reachable state, whatever the calls made on the contexts of
\* the model and their order, the head of every context is a node of the trie
\* and the order of the context is the depth of that node.
C32_CursorConsistent ==
  \A c \in Contexts :
    Live(c) =>
      /\ ctxs[c].head_ \in 1..Len(nodes)
      /\ ctxs[c].order_ = Depth(nodes, ctxs[c].head_)

\* C32 witness: after observes through one context, an advance has moved the
\* other one: the two contexts rest on different nodes at different depths,
\* neither of them on the root.
C32_Witness ==
  /\ last = Call("addSymbolToContext", "done", 0)
  /\ numObserved >= 3
  /\ \A c \in Contexts : Live(c) /\ ctxs[c].head_ # Root
  /\ \E c, d \in Contexts :
       /\ ctxs[c].order_ = 2
       /\ ctxs[d].order_ = 1
       /\ nodes[ctxs[c].head_].symbol_ # nodes[ctxs[d].head_].symbol_

\* C33: when observe(ctx, s) with 1 <= s < vocabularySize is called while
\* another context c equals ctx (a clone of it), advance(c, s) after the
\* observe leaves c with the node and the order the observe left ctx with.
C33_AdvanceFollowsObserve ==
  [][ \A c, d \in Contexts, s \in SymbolArgs :
        ( /\ last'.op = "addSymbolAndUpdate"
          /\ 1 <= s /\ s < size(symbols_)
          /\ c # d
          /\ ctxs[d] = cloneContext(ctxs[c])
          /\ AddSymbolAndUpdate(c, s) ) =>
          LET a == addSymbolToContext(nodes', maxOrder_, size(symbols_),
                                      ctxs'[d], s)
          IN /\ a.outcome = "done"
             /\ a.context = ctxs'[c] ]_vars

\* C33 witness: the two contexts rest on the same node at order
\* maxOrder = 2, where the observe lands on the backoff of the node it grew
\* and the advance has to back off before it can extend, and the last call
\* was an advance.
C33_Witness ==
  /\ last = Call("addSymbolToContext", "done", 0)
  /\ maxOrder_ = 2
  /\ numObserved >= 3
  /\ \A c, d \in Contexts :
       /\ Live(c)
       /\ ctxs[c] = ctxs[d]
       /\ ctxs[c].order_ = maxOrder_
       /\ \E n \in 1..Len(nodes) :
            /\ Depth(nodes, n) = maxOrder_ + 1
            /\ nodes[n].backoff_ = ctxs[c].head_

\* C34: in every reachable state no node lies deeper than maxOrder + 1 and
\* no context rests deeper than maxOrder; an observe with a symbol
\* 1..vocabularySize-1 from a context at order maxOrder leaves under the
\* head the context had a child at depth maxOrder + 1, and the context one
\* level above it.
C34_DepthBounded ==
  /\ constructed =>
       /\ \A n \in 1..Len(nodes) : Depth(nodes, n) <= maxOrder_ + 1
       /\ \A c \in Contexts :
            Live(c) => Depth(nodes, ctxs[c].head_) <= maxOrder_
  /\ constructed =>
       \A c \in Contexts, s \in RealSymbols :
         (Live(c) /\ ctxs[c].order_ = maxOrder_) =>
           LET r == addSymbolAndUpdate(nodes, maxOrder_, size(symbols_),
                                       ctxs[c], s)
               grown == findChildWithSymbol(r.nodes, ctxs[c].head_, s)
           IN /\ grown # Null
              /\ Depth(r.nodes, grown) = maxOrder_ + 1
              /\ Depth(r.nodes, r.context.head_) = maxOrder_
              /\ r.context.head_ # grown

\* C34 witness: an observe from order maxOrder has returned: the last node
\* of the trie but maxOrder lies at depth maxOrder + 1, it was counted once,
\* and every context rests at depth maxOrder.
C34_Witness ==
  /\ last = Call("addSymbolAndUpdate", "done", 0)
  /\ Len(nodes) > maxOrder_ + 1
  /\ Depth(nodes, Len(nodes) - maxOrder_) = maxOrder_ + 1
  /\ nodes[Len(nodes) - maxOrder_].count_ = 1
  /\ \A c \in Contexts :
       Live(c) /\ Depth(nodes, ctxs[c].head_) = maxOrder_

\* C35: in every reachable trie the children of a node carry different
\* symbols, and every node but the root carries a symbol
\* 1..vocabularySize-1.
C35_ChildrenKeyedBySymbol ==
  constructed =>
    /\ \A n \in 1..Len(nodes) :
         \A i, j \in 1..Len(ChildList(nodes, n)) :
           i # j => nodes[ChildList(nodes, n)[i]].symbol_
                      # nodes[ChildList(nodes, n)[j]].symbol_
    /\ \A n \in 2..Len(nodes) : nodes[n].symbol_ \in RealSymbols
    /\ nodes[Root].symbol_ = rootSymbol

\* C35 witness: the root has two children, one of them counted more than
\* once: an observe found the child in place of creating a second one.
C35_Witness ==
  /\ last = Call("addSymbolAndUpdate", "done", 0)
  /\ Len(ChildList(nodes, Root)) = 2
  /\ \E i \in 1..2 : nodes[ChildList(nodes, Root)[i]].count_ >= 2

(***************************************************************************)
(* The scanning keyboard of src/script.js.  The record ui holds the state  *)
(* variables of the script, the layout shown in the letter grid, the set   *)
(* of grid positions whose letter element carries a scan class            *)
(* (highlight, pulse, line or row-highlight), and the interval timers that *)
(* are set, each with the variables its callback closes over.  The trie of *)
(* the script's ppm is nodes, its vocabulary symbols_.  Word predictions   *)
(* (vocab.words, selectWord) and the speech output read the message and    *)
(* the context but are kept out of the model; the scan animation and the   *)
(* scan speed only choose the class and the period of the highlighting.    *)
(***************************************************************************)
\* Selections of a character that grow the trie.
MaxSelect == 1
\* Length of the message.
MaxMessage == 1
\* Characters the user selects: one of the vocabulary, one outside it.
SelectChars == {"A", "Z"}

\* script.js: const maxOrder = 3
maxOrder == 3

\* The keyboard layouts, each a string of 27 characters.
layouts ==
  [abc |-> <<"A", "B", "C", "D", "E", "F", "G", "H", "I", "J", "K", "L",
            "M", "N", "O", "P", "Q", "R", "S", "T", "U", "V", "W", "X",
            "Y", "Z", " ">>,
   qwerty |-> <<"Q", "W", "E", "R", "T", "Y", "U", "I", "O", "P", "A", "S",
               "D", "F", "G", "H", "J", "K", "L", "Z", "X", "C", "V", "B",
               "N", "M", " ">>,
   frequency |-> <<"E", "T", "A", "O", "I", "N", "S", "H", "R", "D", "L", "U",
                  "C", "M", "F", "W", "Y", "P", "V", "B", "G", "K", "J", "Q",
                  "X", "Z", " ">>]

LayoutNames == {"abc", "qwerty", "frequency"}
ScanModes == {"linear", "row-column"}

\* The test /[A-Z ]/ of getTopPredictions.
IsUpperOrSpace(ch) == ch \in Range(layouts.abc)

\* The element of a non-empty set of grid positions that comes first in the
\* document.
First(S) == CHOOSE i \in S : \A j \in S : i <= j

\* The value of Body for a value, which is computed once.
With(value, Body(_)) == CHOOSE result \in { Body(v) : v \in {value} } : TRUE

\* The letters of getTopPredictions for the array probs of getProbs: the
\* symbols with a positive probability that are a letter or the space, by
\* falling probability (Array.prototype.sort is stable), the first topN.
letterPredictions(p, topN) ==
  LET kept == { i \in 1..size(symbols_) :
                  IsPositive(p.num[i]) /\ IsUpperOrSpace(symbols_[i]) }
      Sooner(j, i) ==
        \/ IsPositive(NumSub(p.num[j], p.num[i]))
        \/ p.num[j] = p.num[i] /\ j < i
      Place(i) == Cardinality({ j \in kept : Sooner(j, i) }) + 1
  IN [k \in 1..Min(topN, Cardinality(kept)) |->
        symbols_[CHOOSE i \in kept : Place(i) = k]]

\* getTopPredictions(context, topN), its letters; or the exception of
\* getProbs.
getTopPredictions(ns, context, topN) ==
  With(getProbs(ns, symbols_, useExclusion_, context),
       LAMBDA p : IF p.thrown THEN [thrown |-> TRUE, letters |-> <<>>]
                  ELSE [thrown |-> FALSE,
                        letters |-> letterPredictions(p, topN)])

\* clearInterval(id)
clearInterval(u, id) ==
  [u EXCEPT !.timers = [i \in (DOMAIN u.timers) \ {id} |-> u.timers[i]]]

\* setInterval: the id of the new timer, one that no live timer has.
NewTimer(u) == CHOOSE id \in 1..(Cardinality(DOMAIN u.timers) + 1) :
                 id \notin DOMAIN u.timers

\* stopScanning without clearInterval: the timer is forgotten, not
\* cleared.  C37 rests on the timer being cleared.
stopScanningKeepsTimer(u) ==
  [u EXCEPT !.scanInterval = Null, !.scanning = FALSE, !.scanIndex = 0,
            !.currentRowIndex = -1, !.highlighted = {}]

\* stopScanning()
stopScanning(u) ==
  LET u1 == IF u.scanInterval # Null
            THEN [clearInterval(u, u.scanInterval) EXCEPT !.scanInterval = Null]
            ELSE u
  IN [u1 EXCEPT !.scanning = FALSE, !.scanIndex = 0, !.currentRowIndex = -1,
                !.highlighted = {}]

\* startScanning() past its toggle, with the value predictions of its call
\* of getTopPredictions: the flag, the variables of the callback and the
\* interval timer.  An exception of getTopPredictions leaves the function
\* after the flag is set.
startScanningWith(u, predictions) ==
  LET u1 == [stopScanning(u) EXCEPT !.scanning = TRUE]
      letterElements == layouts[u.layout]
      predictedLetterElements ==
        IF u.usePredictions
        THEN With(SelectSeq(predictions.letters,
                            LAMBDA ch : Includes(letterElements, ch)),
                  LAMBDA inGrid :
                    [k \in 1..Len(inGrid) |->
                       IndexOf(letterElements, inGrid[k])])
        ELSE <<>>
      callback == [letterElements |-> letterElements,
                   predictedLetterElements |-> predictedLetterElements,
                   firstLoopComplete |-> FALSE,
                   predictiveScanningDone |-> ~u.usePredictions,
                   loopCount |-> 0]
      id == NewTimer(u1)
  IN IF predictions.thrown THEN u1
     ELSE [u1 EXCEPT !.scanIndex = 0, !.currentRowIndex = -1,
                     !.scanInterval = id,
                     !.timers = [i \in (DOMAIN u1.timers) \cup {id} |->
                                   IF i = id THEN callback
                                   ELSE u1.timers[i]]]

\* startScanning(): the toggle when scanning is on, the start when not.
startScanning(ns, u) ==
  IF u.scanning THEN stopScanning(u)
  ELSE With(getTopPredictions(ns, u.context, 6),
            LAMBDA predictions : startScanningWith(u, predictions))

\* The end of a loop of the regular scan in the callback: the first one is
\* noted and predictiveScanningDone is set again from usePredictions.
LoopEnd(u, cl) ==
  IF ~cl.firstLoopComplete
  THEN [cl EXCEPT !.firstLoopComplete = TRUE,
                  !.predictiveScanningDone = ~u.usePredictions]
  ELSE cl

\* The linear scan ending after four loops.  C38 rests on the count of
\* three.
LinearScanDoneAfterFour(loopCount) == loopCount >= 4

\* `if (loopCount >= 3)` of the linear scan.
LinearScanDone(loopCount) == loopCount >= 3

\* The callback of the interval timer id set by startScanning, one run.
ScanCallback(u, id) ==
  LET cl == u.timers[id]
      n == Len(cl.letterElements)
      u0 == [u EXCEPT !.highlighted = {}]
  IN
  IF ~u.scanning
  THEN IF u.scanInterval # Null THEN clearInterval(u, u.scanInterval) ELSE u
  ELSE IF u.usePredictions /\ ~cl.predictiveScanningDone
  THEN IF u.scanIndex < Len(cl.predictedLetterElements)
       THEN [u0 EXCEPT
               !.highlighted = {cl.predictedLetterElements[u.scanIndex + 1]},
               !.scanIndex = @ + 1]
       ELSE [u0 EXCEPT !.timers[id].predictiveScanningDone = TRUE,
                       !.scanIndex = 0, !.currentRowIndex = -1]
  ELSE IF u.scanMode = "row-column"
  THEN LET numCols == (n + 5) \div 6
           numRows == (n + numCols - 1) \div numCols
       IN IF u.currentRowIndex = -1
          THEN LET rowToHighlight == u.scanIndex \div numCols
                   next == (u.scanIndex + 1) % numRows
               IN [u0 EXCEPT
                     !.highlighted = { i \in 0..(n - 1) :
                                         i \div numCols = rowToHighlight },
                     !.scanIndex = next,
                     !.timers[id] = IF next = 0 THEN LoopEnd(u, cl) ELSE cl,
                     !.currentRowIndex = IF next = 0 THEN 0 ELSE @]
          ELSE LET startIndex == u.currentRowIndex * numCols
                   endIndex == Min(startIndex + numCols, n)
                   columnIndex == u.scanIndex % numCols
                   next == (u.scanIndex + 1) % numCols
               IN [u0 EXCEPT
                     !.highlighted = IF startIndex + columnIndex < endIndex
                                     THEN {startIndex + columnIndex} ELSE {},
                     !.scanIndex = next,
                     !.currentRowIndex = IF next = 0 THEN -1 ELSE @]
  ELSE LET next == (u.scanIndex + 1) % n
           u1 == [u0 EXCEPT
                    !.highlighted = IF u.scanIndex < n THEN {u.scanIndex}
                                    ELSE {},
                    !.scanIndex = next]
           cl1 == [LoopEnd(u, cl) EXCEPT !.loopCount = @ + 1]
       IN IF next # 0 THEN u1
          ELSE IF LinearScanDone(cl1.loopCount) THEN stopScanning(u1)
          ELSE [u1 EXCEPT !.timers[id] = cl1]

\* `if (scanning) { stopScanning(); startScanning(); }`, with the value
\* predictions of getTopPredictions for the trie and the context as they
\* are: every call a handler makes on the same trie and context returns it.
Restart(u, predictions) ==
  IF u.scanning THEN startScanningWith(stopScanning(u), predictions) ELSE u

\* selectCharacter(char): the message, the observation through the context,
\* the refreshed predictions and the restart of the scan.  An exception of
\* addSymbolAndUpdate or of getTopPredictions ends the handler where it is
\* thrown.
selectCharacter(ns, u, char) ==
  With(addSymbolAndUpdate(ns, maxOrder_, size(symbols_), u.context,
                          IndexOf(symbols_, char)),
       LAMBDA r :
         LET u1 == [u EXCEPT !.message = Append(@, char),
                             !.context = r.context]
         IN IF r.outcome = "thrown" THEN [nodes |-> r.nodes, ui |-> u1]
            ELSE With(getTopPredictions(r.nodes, u1.context, 6),
                      LAMBDA predictions :
                        IF predictions.thrown
                        THEN [nodes |-> r.nodes, ui |-> u1]
                        ELSE [nodes |-> r.nodes,
                              ui |-> Restart(u1, predictions)]))

\* handleScanSelection()
handleScanSelection(ns, u) ==
  IF ~u.scanning \/ u.highlighted = {} THEN [nodes |-> ns, ui |-> u]
  ELSE
    LET letterElements == layouts[u.layout]
        highlightedLetter == First(u.highlighted)
        char == letterElements[highlightedLetter + 1]
    IN IF u.scanMode = "row-column" /\ u.currentRowIndex = -1
       THEN [nodes |-> ns,
             ui |-> [u EXCEPT
                       !.currentRowIndex =
                         highlightedLetter
                           \div ((Len(letterElements) + 5) \div 6),
                       !.scanIndex = 0]]
       ELSE With(selectCharacter(ns, u, char),
                 LAMBDA r :
                   [r EXCEPT !.ui.currentRowIndex =
                               IF u.scanMode = "row-column" THEN -1 ELSE @,
                             !.ui.scanIndex = 0])

\* The handler of the Clear button: the message is emptied; the context that
\* ppm.createContext() returns is not kept.
clear(ns, u) == [u EXCEPT !.message = <<>>]

\* The handler of the Undo button.
undo(u) == [u EXCEPT !.message = SubSeq(@, 1, Len(@) - 1)]

\* The two listeners of a control, registered at load and again in initApp:
\* each sets its variable and restarts the scan.
layoutChange(ns, u, value) ==
  With(getTopPredictions(ns, u.context, 6),
       LAMBDA predictions :
         LET once(v) ==
               IF predictions.thrown
               THEN [v EXCEPT !.layout = value, !.highlighted = {}]
               ELSE Restart([v EXCEPT !.layout = value, !.highlighted = {}],
                            predictions)
         IN With(once(u), once))

predictionChange(ns, u, checked) ==
  With(getTopPredictions(ns, u.context, 6),
       LAMBDA predictions :
         LET once(v) == Restart([v EXCEPT !.usePredictions = checked],
                                predictions)
         IN With(once(u), once))

scanModeChange(ns, u, value) ==
  With(getTopPredictions(ns, u.context, 6),
       LAMBDA predictions :
         LET once(v) == Restart([v EXCEPT !.scanMode = value], predictions)
         IN With(once(u), once))

scanSpeedInput(ns, u) ==
  With(getTopPredictions(ns, u.context, 6),
       LAMBDA predictions :
         LET once(v) == Restart(v, predictions) IN With(once(u), once))

\* The raw characters of a training text that initializeModel observes:
\* those getSymbolIndex finds in the vocabulary.
TrainingSymbols(text) ==
  LET found == SelectSeq(text, LAMBDA ch : getSymbolIndex(symbols_, ch) # -1)
  IN [k \in 1..Len(found) |-> getSymbolIndex(symbols_, found[k])]

\* Training texts of the page.
UITexts == { <<"b", "A", "C">>, <<"B", "a", " ", "A">> }

\* The trie and the context of initializeModel for a training text: the
\* model of order maxOrder, trained through one context.
initializeModel(text) ==
  ObserveAll(<<NewNode>>, maxOrder, size(symbols_), createContext,
             TrainingSymbols(text))

\* The page when initApp has run: the vocabulary and the model trained, the
\* context of the training kept by the script, and the scan started.
InitUI ==
  \E text \in UITexts :
    /\ symbols_ = trainOnText(<<>>, text)
    /\ constructed = TRUE
    /\ maxOrder_ = maxOrder
    /\ useExclusion_ = FALSE
    /\ nodes = initializeModel(text).nodes
    /\ ctxs = [c \in 1..MaxContexts |-> NoContext]
    /\ numObserved = 0
    /\ probs = NoProbs
    /\ last = Call("initApp", "done", 0)
    /\ \E context \in { initializeModel(text).context } :
         ui = startScanning(nodes, [ScriptStart EXCEPT !.context = context])

\* One handler has run and left the trie and the script state of result,
\* within the bounds of the model.
Handled(result) ==
  \E r \in {result} :
    /\ Len(r.ui.message) <= MaxMessage
    /\ Range(r.ui.message) \subseteq SelectChars
    /\ r.nodes # nodes => numObserved < MaxSelect
    /\ nodes' = r.nodes
    /\ ui' = r.ui
    /\ numObserved' = IF r.nodes # nodes THEN numObserved + 1 ELSE numObserved
    /\ UNCHANGED <<symbols_, constructed, maxOrder_, useExclusion_, ctxs,
                   probs, last>>

\* keydown Space: the selection when scanning, the start when not.
KeySpace ==
  Handled(IF ui.scanning THEN handleScanSelection(nodes, ui)
          ELSE [nodes |-> nodes, ui |-> startScanning(nodes, ui)])

\* keydown Escape
KeyEscape == Handled([nodes |-> nodes, ui |-> stopScanning(ui)])

\* click on a letter of the grid
GridClick(char) == Handled(selectCharacter(nodes, ui, char))

\* click on the Clear button
ClearClick == Handled([nodes |-> nodes, ui |-> clear(nodes, ui)])

\* click on the Undo button
UndoClick == Handled([nodes |-> nodes, ui |-> undo(ui)])

\* change of the layout select
LayoutChange(value) ==
  Handled([nodes |-> nodes, ui |-> layoutChange(nodes, ui, value)])

\* change of the prediction checkbox
PredictionChange(checked) ==
  Handled([nodes |-> nodes, ui |-> predictionChange(nodes, ui, checked)])

\* change of the scan mode select
ScanModeChange(value) ==
  Handled([nodes |-> nodes, ui |-> scanModeChange(nodes, ui, value)])

\* input on the scan speed slider
ScanSpeedInput == Handled([nodes |-> nodes, ui |-> scanSpeedInput(nodes, ui)])

\* The interval timer id fires.
Tick(id) == Handled([nodes |-> nodes, ui |-> ScanCallback(ui, id)])

(***************************************************************************)
(* SpecUI: the page after initApp, under the events of the user and the    *)
(* interval timers.                                                        *)
(***************************************************************************)
NextUI ==
  \/ KeySpace
  \/ KeyEscape
  \/ \E char \in SelectChars : GridClick(char)
  \/ ClearClick
  \/ UndoClick
  \/ \E value \in LayoutNames : LayoutChange(value)
  \/ \E checked \in BOOLEAN : PredictionChange(checked)
  \/ \E value \in ScanModes : ScanModeChange(value)
  \/ ScanSpeedInput
  \/ \E id \in DOMAIN ui.timers : Tick(id)

SpecUI == InitUI /\ [][NextUI]_vars

(***************************************************************************)
(* SpecScan: the page left to its interval timers, with no event of the    *)
(* user, from the states in which the user has chosen the layout, the scan *)
(* mode and the predictive scan after initApp.  A timer that is set fires  *)
(* again and again.                                                        *)
(***************************************************************************)
InitScan ==
  \E text \in UITexts, layout \in LayoutNames, mode \in ScanModes,
     checked \in BOOLEAN :
    /\ symbols_ = trainOnText(<<>>, text)
    /\ constructed = TRUE
    /\ maxOrder_ = maxOrder
    /\ useExclusion_ = FALSE
    /\ nodes = initializeModel(text).nodes
    /\ ctxs = [c \in 1..MaxContexts |-> NoContext]
    /\ numObserved = 0
    /\ probs = NoProbs
    /\ last = Call("initApp", "done", 0)
    /\ \E context \in { initializeModel(text).context } :
       \E u0 \in { startScanning(nodes,
                                 [ScriptStart EXCEPT !.context = context]) } :
       \E u1 \in { layoutChange(nodes, u0, layout) } :
       \E u2 \in { scanModeChange(nodes, u1, mode) } :
         ui = predictionChange(nodes, u2, checked)

NextScan == \E id \in DOMAIN ui.timers : Tick(id)

SpecScan == InitScan /\ [][NextScan]_vars /\ WF_vars(NextScan)

(***************************************************************************)
(* Properties of the scanning keyboard                                     *)
(***************************************************************************)
\* C36: the handler of the Clear button leaves the script with a fresh
\* context, at the root with order 0, for the predictions and observations
\* that follow.
C36_ClearResetsContext ==
  [][ ClearClick => ui'.context = createContext ]_vars

\* The interval timers that are set.
LiveTimers == DOMAIN ui.timers

\* C37: after every handler and every run of the timer callback at most one
\* interval timer is set, the scanning flag is true exactly when one is, and
\* scanInterval names it.
C37_OneTimerWhileScanning ==
  /\ Cardinality(LiveTimers) <= 1
  /\ ui.scanning <=> LiveTimers # {}
  /\ ui.scanning => LiveTimers = {ui.scanInterval}
  /\ ~ui.scanning => ui.scanInterval = Null

\* C37 witness: after a selection that grew the trie, in row-column mode
\* without the predictive scan, the only timer has finished its first loop
\* over the rows and scans the letters of a row.
C37_Witness ==
  /\ ui.scanning
  /\ LiveTimers = {ui.scanInterval}
  /\ numObserved = 1
  /\ Len(ui.message) = 1
  /\ ui.scanMode = "row-column"
  /\ ~ui.usePredictions
  /\ ui.layout = "qwerty"
  /\ ui.timers[ui.scanInterval].firstLoopComplete
  /\ ui.currentRowIndex = 0
  /\ ui.scanIndex = 3

\* C38: with no event of the user, a scan in linear mode ends: scanning
\* becomes false and no timer is left; the callback ends a scan only in
\* linear mode, in the run that completes the third pass over the letters of
\* the grid; and a scan in row-column mode goes on for ever.
C38_LinearScanStopsItself ==
  /\ (ui.scanning /\ ui.scanMode = "linear")
       ~> (~ui.scanning /\ LiveTimers = {} /\ ui.scanInterval = Null)
  /\ [][ (ui.scanning /\ ~ui'.scanning) =>
           /\ ui.scanMode = "linear"
           /\ ui.timers[ui.scanInterval].loopCount = 2
           /\ ui.scanIndex = Len(ui.timers[ui.scanInterval].letterElements) - 1
           /\ DOMAIN ui'.timers = {}
           /\ ui'.scanInterval = Null ]_vars
  /\ [](ui.scanMode = "row-column" => ui.scanning)

\* C38 witness: a linear scan with the predictive scan enabled has ended by
\* itself.
C38_Witness ==
  /\ ~ui.scanning
  /\ LiveTimers = {}
  /\ ui.scanMode = "linear"
  /\ ui.usePredictions
  /\ ui.scanIndex = 0

\* C39: once the callback of a timer has finished the predictive pass, it
\* does not run it again as long as the timer is set: predictiveScanningDone
\* stays true.
C39_PredictivePassOnce ==
  [][ \A id \in DOMAIN ui.timers :
        ( /\ Tick(id)
          /\ ui.timers[id].predictiveScanningDone
          /\ id \in DOMAIN ui'.timers ) =>
          ui'.timers[id].predictiveScanningDone ]_vars

====
